---- MODULE Spec2Model ----
(***************************************************************************)
(* A model of firebird-assistant: the unified connection layer             *)
(* (connection.py), the legacy connector (dbapi.py), the database utility  *)
(* operations (fb_utils.py), the interactive shell (__main__.py) and the   *)
(* connection-profile store (profiles.py).                                 *)
(*                                                                         *)
(* Text is modelled as a sequence of one-character strings, so that        *)
(* strip(), lower(), startswith(), "in" and split() are computed as the    *)
(* Python code computes them.                                              *)
(***************************************************************************)
EXTENDS Integers, Sequences, FiniteSets, TLC

(***************************************************************************)
(* Text helpers (Python str methods used by the code)                      *)
(***************************************************************************)

\* Python's None, where the other values are strings
None == "None"

\* Python's None, where the other values are texts (sequences of characters)
NoText == <<"None">>

\* str.isspace() for one character
IsSpace(c) == c = " "

\* str.lower() for one character, over the letters the version strings use
LowerChar(c) ==
    CASE c = "F" -> "f"
      [] c = "W" -> "w"
      [] c = "L" -> "l"
      [] c = "I" -> "i"
      [] c = "V" -> "v"
      [] OTHER -> c

\* str.lower()
Lower(s) == [i \in 1..Len(s) |-> LowerChar(s[i])]

RECURSIVE LStrip(_)
\* str.lstrip()
LStrip(s) ==
    IF s # <<>> /\ IsSpace(Head(s)) THEN LStrip(Tail(s)) ELSE s

RECURSIVE RStrip(_)
\* str.rstrip()
RStrip(s) ==
    IF s # <<>> /\ IsSpace(s[Len(s)]) THEN RStrip(SubSeq(s, 1, Len(s) - 1)) ELSE s

\* str.strip()
Strip(s) == RStrip(LStrip(s))

\* str.startswith(p)
StartsWith(s, p) == Len(s) >= Len(p) /\ SubSeq(s, 1, Len(p)) = p

\* p in s
Contains(s, p) ==
    \E i \in 1..(Len(s) - Len(p) + 1) : SubSeq(s, i, i + Len(p) - 1) = p

(***************************************************************************)
(* connection.py: version classification and version probing               *)
(***************************************************************************)

S_25 == <<"2", ".", "5">>
S_firebird_25 == <<"f", "i", "r", "e", "b", "i", "r", "d", " ", "2", ".", "5">>
S_wi_v25 == <<"w", "i", "-", "v", "2", ".", "5">>
S_unknown == <<"u", "n", "k", "n", "o", "w", "n">>

\* Version strings a server can report (ENGINE_VERSION / MON$SERVER_VERSION)
V_259_padded == <<" ", "2", ".", "5", ".", "9", " ">>
V_Firebird25 == <<"F", "i", "r", "e", "b", "i", "r", "d", " ", "2", ".", "5">>
V_WI_V259 == <<"W", "I", "-", "V", "2", ".", "5", ".", "9">>
V_3010 == <<"3", ".", "0", ".", "1", "0">>
V_blank == <<" ">>
V_empty == <<>>

VersionValues == {V_259_padded, V_Firebird25, V_WI_V259, V_3010, V_blank}

\* _is_25: the version string indicates Firebird 2.5
_is_25(version_str) ==
    LET vs == Lower(Strip(version_str))
    IN  StartsWith(vs, S_25) \/ Contains(vs, S_firebird_25) \/ Contains(vs, S_wi_v25)

\* The outcome of one guarded version query (cursor, execute, fetchone, close):
\* it raises, it fetches no row, or it fetches a row whose first column is
\* NULL (None), empty or a version string.
ProbeRaise == [kind |-> "raise", val |-> NoText]
ProbeNoRow == [kind |-> "norow", val |-> NoText]
ProbeRow(v) == [kind |-> "row", val |-> v]
ProbeOutcomes ==
    {ProbeRaise, ProbeNoRow, ProbeRow(NoText), ProbeRow(V_empty)}
        \cup {ProbeRow(v) : v \in VersionValues}

\* "row and row[0]": the query fetched a row with a truthy first column
Yields(p) == p.kind = "row" /\ p.val # NoText /\ p.val # V_empty

\* The outcomes of the two version queries of one probe: the fallback query
\* runs only when the first one yields nothing.
ProbePairs ==
    {pp \in [p1 : ProbeOutcomes, p2 : ProbeOutcomes] : Yields(pp.p1) => pp.p2 = ProbeRaise}

\* Errors are records: the exception type, the library or function that raised
\* it, and the set of client libraries its message names.
NoError == [type |-> "none", origin |-> "none", names |-> {}]
Err(type, origin, names) == [type |-> type, origin |-> origin, names |-> names]

\* The result of a function call: a returned value or a raised error
Return(v) == [ok |-> TRUE, val |-> v, err |-> NoError]
Raise(e) == [ok |-> FALSE, val |-> None, err |-> e]

ProbeError(engine) == Err("FirebirdError", "server_version", {engine})

_detect_server_version_always_raises(engine, p1, p2) ==
    IF Yields(p1) THEN Return(Strip(p1.val))
    ELSE IF Yields(p2) THEN Return(Strip(p2.val))
    ELSE Raise(ProbeError(engine))

\* _detect_server_version_driver / _detect_server_version_sql (the two bodies
\* are the same but for the engine named in the error message)
_detect_server_version(engine, p1, p2) ==
    IF Yields(p1) THEN Return(Strip(p1.val))
    ELSE IF p2.kind = "raise" THEN Raise(ProbeError(engine))
    ELSE IF Yields(p2) THEN Return(Strip(p2.val))
    ELSE Return(S_unknown)

(***************************************************************************)
(* connection.py: client-library connects and FirebirdConnection.open      *)
(***************************************************************************)

ENGINE_MODERN == "firebird-driver"
ENGINE_LEGACY == "firebirdsql"

\* A raw driver handle: the library that created it and whether it is open,
\* that is, whether close() has not been called on it yet
Handle(engine) == [engine |-> engine, open |-> TRUE]

CloseHandle_noop(hs, h) == hs

\* raw.close() on handle h (a second close changes nothing)
CloseHandle(hs, h) == [hs EXCEPT ![h].open = FALSE]

\* A FirebirdConnection wrapper: the engine tag and the raw handle's index
Conn(engine, raw) == [engine |-> engine, raw |-> raw]
NoConn == Conn("none", 0)

\* What the modern library's connect() calls do, in call order: the call that
\* decides is the last one listed (a TypeError makes the code try again).
ModernOutcomes ==
    { <<"ok">>, <<"DatabaseError">>,
      <<"TypeError", "ok">>, <<"TypeError", "DatabaseError">>,
      <<"TypeError", "TypeError", "ok">>,
      <<"TypeError", "TypeError", "DatabaseError">>,
      <<"TypeError", "TypeError", "TypeError">> }

\* What firebirdsql.connect() does
LegacyOutcomes == {"ok", "OperationalError"}

\* The outcome of a connect helper: whether a handle was obtained, the error
\* raised otherwise, and the number of library connect() calls made.
ConnectOut(outcome, origin, calls) ==
    [ok |-> outcome = "ok",
     err |-> IF outcome = "ok" THEN NoError ELSE Err(outcome, origin, {}),
     calls |-> calls]

\* _connect_firebird_driver: DSN with charset, then without, then keywords
_connect_firebird_driver(has, a) ==
    IF ~has THEN [ok |-> FALSE, err |-> Err("FirebirdError", "open", {ENGINE_MODERN}), calls |-> 0]
    ELSE IF a[1] # "TypeError" THEN ConnectOut(a[1], ENGINE_MODERN, 1)
    ELSE IF a[2] # "TypeError" THEN ConnectOut(a[2], ENGINE_MODERN, 2)
    ELSE ConnectOut(a[3], ENGINE_MODERN, 3)

\* _connect_firebirdsql
_connect_firebirdsql(has, l) ==
    IF ~has THEN [ok |-> FALSE, err |-> Err("FirebirdError", "open", {ENGINE_LEGACY}), calls |-> 0]
    ELSE ConnectOut(l, ENGINE_LEGACY, 1)

\* n connect() calls on one library, as entries of the attempt log
Calls(engine, n) == [i \in 1..n |-> engine]

\* The outcome of open (or of a part of it): the handle table, the connect()
\* calls made, and the wrapper returned or the error raised.
OpenOut(hs, attempts, res) == [hs |-> hs, attempts |-> attempts, res |-> res]

\* The inputs of one open: the modern and legacy connect outcomes and the
\* outcomes of the two version queries on the modern handle.
OpenInputs ==
    {in \in [m : ModernOutcomes, l : LegacyOutcomes, p1 : ProbeOutcomes, p2 : ProbeOutcomes] :
        Yields(in.p1) => in.p2 = ProbeRaise}

\* "raw_sql = _connect_firebirdsql(params); return cls(params, 'firebirdsql', raw_sql)"
ConnectLegacyAndWrap(hasSql, hs, l) ==
    LET c == _connect_firebirdsql(hasSql, l)
        hs1 == Append(hs, Handle(ENGINE_LEGACY))
    IN  IF c.ok THEN OpenOut(hs1, Calls(ENGINE_LEGACY, c.calls), Return(Conn(ENGINE_LEGACY, Len(hs1))))
        ELSE OpenOut(hs, Calls(ENGINE_LEGACY, c.calls), Raise(c.err))

OnModernConnectFailure_always_reraise(hasSql, hs, c, l) ==
    OpenOut(hs, <<>>, Raise(c.err))

\* open, lines 125-129: the except clause around the modern connect
OnModernConnectFailure(hasSql, hs, c, l) ==
    IF hasSql THEN ConnectLegacyAndWrap(hasSql, hs, l)
    ELSE OpenOut(hs, <<>>, Raise(c.err))

\* open, lines 133-146: the body of the try block after a modern connect.
\* Return(NoConn) stands for falling out of the block without a return.
DetectAndPrefer(hasSql, hs, raw, in) ==
    LET ver == _detect_server_version(ENGINE_MODERN, in.p1, in.p2)
    IN  IF ~ver.ok THEN OpenOut(hs, <<>>, Raise(ver.err))
        ELSE IF ~_is_25(ver.val) THEN OpenOut(hs, <<>>, Return(NoConn))
        ELSE IF ~hasSql
             THEN OpenOut(hs, <<>>, Raise(Err("FirebirdError", "open", {ENGINE_LEGACY})))
        ELSE ConnectLegacyAndWrap(hasSql, CloseHandle(hs, raw), in.l)

NoModernDriver_connect_anyway(hasSql, hs, l) ==
    ConnectLegacyAndWrap(hasSql, hs, l)

\* open, lines 152-160: no modern library
NoModernDriver(hasSql, hs, l) ==
    IF ~hasSql
    THEN OpenOut(hs, <<>>, Raise(Err("FirebirdError", "open", {ENGINE_MODERN, ENGINE_LEGACY})))
    ELSE ConnectLegacyAndWrap(hasSql, hs, l)

\* FirebirdConnection.open
FirebirdConnection_open(hasFb, hasSql, hs, in) ==
    IF hasFb
    THEN LET c == _connect_firebird_driver(hasFb, in.m)
             tried == Calls(ENGINE_MODERN, c.calls)
         IN  IF ~c.ok
             THEN LET f == OnModernConnectFailure(hasSql, hs, c, in.l)
                  IN  OpenOut(f.hs, tried \o f.attempts, f.res)
             ELSE LET hs1 == Append(hs, Handle(ENGINE_MODERN))
                      raw == Len(hs1)
                      d == DetectAndPrefer(hasSql, hs1, raw, in)
                  IN  IF d.res.ok /\ d.res.val # NoConn
                      THEN OpenOut(d.hs, tried \o d.attempts, d.res)
                      \* except Exception: pass (or no return in the try block)
                      ELSE OpenOut(d.hs, tried \o d.attempts, Return(Conn(ENGINE_MODERN, raw)))
    ELSE NoModernDriver(hasSql, hs, in.l)

\* FirebirdConnection.server_version
server_version(c, p1, p2) == _detect_server_version(c.engine, p1, p2)

(***************************************************************************)
(* dbapi.py: the legacy connector                                          *)
(***************************************************************************)

\* What the modern library's connect(dsn, user=, password=) does when called
\* by try_connect_firebird_driver
UnifiedModernOutcomes == {"ok", "DatabaseError"}

\* try_connect_firebird_driver: the import fails when the library is missing
try_connect_firebird_driver(hasFb, m) ==
    IF ~hasFb THEN [ok |-> FALSE, err |-> Err("ImportError", ENGINE_MODERN, {}), calls |-> 0]
    ELSE ConnectOut(m, ENGINE_MODERN, 1)

\* try_connect_firebirdsql
try_connect_firebirdsql(hasSql, l) ==
    IF ~hasSql THEN [ok |-> FALSE, err |-> Err("ImportError", ENGINE_LEGACY, {}), calls |-> 0]
    ELSE ConnectOut(l, ENGINE_LEGACY, 1)

\* connect_unified: the modern library first; on any failure the legacy one,
\* whose failure is raised. Returns (con, driver) as a Conn.
connect_unified(hasFb, hasSql, hs, m, l) ==
    LET c1 == try_connect_firebird_driver(hasFb, m)
        c2 == try_connect_firebirdsql(hasSql, l)
        hsM == Append(hs, Handle(ENGINE_MODERN))
        hsL == Append(hs, Handle(ENGINE_LEGACY))
    IN  IF c1.ok
        THEN OpenOut(hsM, Calls(ENGINE_MODERN, c1.calls), Return(Conn(ENGINE_MODERN, Len(hsM))))
        ELSE IF c2.ok
        THEN OpenOut(hsL, Calls(ENGINE_MODERN, c1.calls) \o Calls(ENGINE_LEGACY, c2.calls),
                     Return(Conn(ENGINE_LEGACY, Len(hsL))))
        ELSE OpenOut(hs, Calls(ENGINE_MODERN, c1.calls) \o Calls(ENGINE_LEGACY, c2.calls),
                     Raise(c2.err))

(***************************************************************************)
(* fb_utils.py: statement splitting                                        *)
(***************************************************************************)

\* The characters of the SQL texts given to execute_sql
SqlAlphabet == {"a", "b", ";", " "}

\* The longest SQL text given to execute_sql
MaxSqlLen == 3

RECURSIVE TextsUpTo(_)
\* All texts over SqlAlphabet of length n or less
TextsUpTo(n) ==
    IF n = 0 THEN {<<>>}
    ELSE LET shorter == TextsUpTo(n - 1)
         IN  shorter \cup {Append(t, c) : t \in shorter, c \in SqlAlphabet}

SqlTexts == TextsUpTo(MaxSqlLen)

RECURSIVE Find(_, _, _)
\* The first index at or after i where s holds c, or 0
Find(s, c, i) ==
    IF i > Len(s) THEN 0
    ELSE IF s[i] = c THEN i
    ELSE Find(s, c, i + 1)

RECURSIVE Split(_, _)
\* str.split(sep) for a one-character separator
Split(s, sep) ==
    LET i == Find(s, sep, 1)
    IN  IF i = 0 THEN <<s>>
        ELSE <<SubSeq(s, 1, i - 1)>> \o Split(SubSeq(s, i + 1, Len(s)), sep)

SplitStatements_keep_empty(sql) ==
    LET pieces == Split(sql, ";")
    IN  [i \in 1..Len(pieces) |-> Strip(pieces[i]) \o <<";">>]

\* execute_sql, lines 225-233 with allow_multi_values = False (the default):
\* the non-empty trimmed pieces between ';', each with ';' appended again
SplitStatements(sql) ==
    LET pieces == Split(sql, ";")
        stripped == [i \in 1..Len(pieces) |-> Strip(pieces[i])]
        raw_stmts == SelectSeq(stripped, LAMBDA st : st # <<>>)
    IN  [i \in 1..Len(raw_stmts) |-> raw_stmts[i] \o <<";">>]

(***************************************************************************)
(* fb_utils.py: exceptions, driver calls and result rows of an operation   *)
(***************************************************************************)

\* An exception as an operation sees it: the error, the attempt ("primary" or
\* "fallback") it was raised in, and the call that raised it
Exc(err, path, site) == [err |-> err, path |-> path, site |-> site]
NoExc == Exc(NoError, "none", "none")

\* What a driver or file call raises when it fails
CallError(site) == Err("DatabaseError", site, {})

\* What an operation returned or raised
OpReturn(v) == [ok |-> TRUE, val |-> v, exc |-> NoExc]
OpRaise(x) == [ok |-> FALSE, val |-> 0, exc |-> x]
NoOpResult == [ok |-> FALSE, val |-> 0, exc |-> NoExc]

\* One call on a raw handle, as the operation's call log records it: the
\* handle, the method, its argument and whether it returned (ok) or raised
Call(h, name, arg, ok) == [h |-> h, call |-> name, arg |-> arg, ok |-> ok]

\* Rows of a result set and of the CSV file
HeaderRow == [kind |-> "header", n |-> 0]
DataRow(i) == [kind |-> "data", n |-> i]
NoFile == <<[kind |-> "nofile", n |-> 0]>>

\* What output_csv may name when the export starts: no file, or a file written before
OutputFiles == {NoFile, <<HeaderRow, DataRow(1)>>}

\* cur.fetchmany(size) on a result set of n rows with pos rows already fetched
fetchmany(n, pos, size) ==
    [i \in 1..(IF n - pos < size THEN n - pos ELSE size) |-> DataRow(pos + i)]

\* stream_query_to_csv's default chunk_size
DEFAULT_CHUNK_SIZE == 10000

(***************************************************************************)
(* profiles.py: ConnectionProfile, ProfileStore, load_store, save_store    *)
(***************************************************************************)

\* The profile names, and the values of the other fields, used in the model
ProfileNames == {"a", "b", "c"}
ProfileSettings ==
    {[dsn |-> "db1", user |-> None, role |-> None, charset |-> "UTF8"],
     [dsn |-> "db2", user |-> "sysdba", role |-> "admin", charset |-> "WIN1252"]}

\* The fields ConnectionProfile declares
ProfileFields == {"name", "dsn", "user", "role", "charset"}

\* ConnectionProfile(name=..., dsn=..., user=..., role=..., charset=...)
ConnectionProfile(name, dsn, user, role, charset) ==
    [name |-> name, dsn |-> dsn, user |-> user, role |-> role, charset |-> charset]

\* ProfileStore(): the profiles mapping is empty
EmptyStore == [n \in {} |-> ConnectionProfile("", "", None, None, "UTF8")]

\* What a ProfileStore method did: the mapping afterwards and the exception
\* raised, or None
StoreResult(profiles, err) == [profiles |-> profiles, err |-> err]

\* self.profiles[key] = profile
SetItem(profiles, key, profile) ==
    [n \in DOMAIN profiles \cup {key} |-> IF n = key THEN profile ELSE profiles[n]]

\* del self.profiles[key] / self.profiles.pop(key)
DelItem(profiles, key) == [n \in DOMAIN profiles \ {key} |-> profiles[n]]

add_replaces_mapping(profiles, profile) ==
    StoreResult(SetItem(EmptyStore, profile.name, profile), None)

\* ProfileStore.add
add(profiles, profile) == StoreResult(SetItem(profiles, profile.name, profile), None)

\* ProfileStore.remove
remove(profiles, name) ==
    StoreResult(IF name \in DOMAIN profiles THEN DelItem(profiles, name) ELSE profiles, None)

rename_overwrites(profiles, old, new) ==
    IF old \notin DOMAIN profiles THEN StoreResult(profiles, "KeyError")
    ELSE StoreResult(SetItem(DelItem(profiles, old), new,
                             [profiles[old] EXCEPT !.name = new]), None)

\* ProfileStore.rename
rename(profiles, old, new) ==
    IF old \notin DOMAIN profiles THEN StoreResult(profiles, "KeyError")
    ELSE IF new \in DOMAIN profiles THEN StoreResult(profiles, "ValueError")
    ELSE LET prof == profiles[old]
             popped == DelItem(profiles, old)
             copy == [prof EXCEPT !.name = new]
         IN  StoreResult(SetItem(popped, new, copy), None)

\* A JSON value: null or a string
JsonNull == [t |-> "null", s |-> ""]
JsonString(s) == [t |-> "string", s |-> s]

\* json.dump of a field's value, and json.load of it
json_dump(v) == IF v = None THEN JsonNull ELSE JsonString(v)
json_load(j) == IF j.t = "null" THEN None ELSE j.s

model_dump_without_role(profiles) ==
    [n \in DOMAIN profiles |->
        [f \in ProfileFields \ {"role"} |-> json_dump(profiles[n][f])]]

\* store.model_dump() as json.dump writes it: under "profiles", one object
\* for each key of the mapping, with the declared fields of its profile
model_dump(profiles) ==
    [n \in DOMAIN profiles |-> [f \in ProfileFields |-> json_dump(profiles[n][f])]]

\* ProfileStore.model_validate(json.load(f)): a field the object lacks takes
\* its default (user and role None, charset "UTF8")
model_validate(doc) ==
    [n \in DOMAIN doc |->
        LET field(f, default) == IF f \in DOMAIN doc[n] THEN json_load(doc[n][f]) ELSE default
        IN  ConnectionProfile(field("name", None), field("dsn", None), field("user", None),
                              field("role", None), field("charset", "UTF8"))]

\* profiles.json does not exist
Missing == [missing |-> TRUE]
Document(doc) == [missing |-> FALSE, profiles |-> doc]

save_store_nothing(profiles) == Document(model_dump(EmptyStore))

\* load_store(): the store of the file, or an empty one when there is no file
load_store(f) == IF f.missing THEN EmptyStore ELSE model_validate(f.profiles)

\* save_store(store): the file written
save_store(profiles) == Document(model_dump(profiles))

\* The conn commands that change the store, with their arguments
AddCommands ==
    {[kind |-> "add", profile |-> ConnectionProfile(n, st.dsn, st.user, st.role, st.charset)] :
        n \in ProfileNames, st \in ProfileSettings}
RmCommands == {[kind |-> "rm", name |-> n] : n \in ProfileNames}
RenameCommands == {[kind |-> "rename", old |-> o, new |-> n] : o \in ProfileNames, n \in ProfileNames}
NoCommand == [kind |-> "none"]

\* The CLI invocations that may run at the same time
Procs == {"p1", "p2"}

(***************************************************************************)
(* State                                                                   *)
(***************************************************************************)

VARIABLES
    _HAS_FB_DRIVER,     \* connection.py: the modern client library imported
    _HAS_FIREBIRDSQL,   \* connection.py: the legacy client library imported
    handles,            \* every raw driver handle created so far
    \* the connection layer used on its own
    attempts,           \* the library connect() calls made so far, in order
    cpc,                \* "init", "open", "probed", "failed", "closed"
    conn,               \* the wrapper open returned, or NoConn
    openIn,             \* the inputs of the open call
    openRes,            \* what open returned or raised
    svIn,               \* the probe outcomes of the server_version() call
    svRes,              \* what the server_version() call returned or raised
    \* one fb_utils operation
    cmd,                \* the CLI command running, or "none"
    op,                 \* the fb_utils function running, or "none"
    pc,                 \* its position
    path,               \* its attempt: "primary" or "fallback"
    opConn,             \* the connection of the attempt
    base,               \* Len(handles) when the function was called
    primaryErr,         \* the exception the primary attempt's except caught
    fallbacks,          \* the number of connect_unified calls
    opRes,              \* what the function returned or raised
    sql,                \* execute_sql: the sql argument
    stmts,              \* execute_sql: the statement list
    nrows,              \* stream_query_to_csv: the rows the query yields
    chunk_size,         \* stream_query_to_csv: the chunk_size argument
    header,             \* stream_query_to_csv: the header argument
    hasCols,            \* stream_query_to_csv: cur.description is not empty
    si,                 \* execute_sql: the index of the next statement
    log,                \* the driver calls of the function, in order
    pos,                \* stream_query_to_csv: rows the cursor has fetched
    pending,            \* stream_query_to_csv: the chunk fetched, not yet written
    file,               \* the output file's rows, or NoFile
    rowcount,           \* stream_query_to_csv: the local rowcount
    summary,            \* quick_health_summary: the keys of the summary
    \* the interactive shell
    shpc,               \* "none", "connect", "loop", "in_op", "closed"
    shConn,             \* the session's connection
    buffer,             \* the pending SQL lines
    nLines,             \* the lines read so far
    line,               \* the kind of the line input() returned last, or how it failed
    shCmd,              \* the ':' command being handled, or "none"
    shExec,             \* the last statement executed on the session's connection
    shOut,              \* the last message printed
    \* the profile store and the conn commands
    pfile,              \* profiles.json: the document saved, or Missing
    ppc,                \* each invocation's position
    pcmd,               \* each invocation's command and arguments (kept when it ended)
    pstore,             \* each invocation's ProfileStore
    pout,               \* what each invocation printed last
    \* gbak_runner.py: one find_gbak or run_backup call
    gpc,                \* "idle", "called", "built", "done"
    gIn,                \* the arguments of the call
    machine,            \* the operating system, the files on disk and PATH's gbak
    gbak,               \* what find_gbak returned or raised
    gcmd,               \* run_backup: the argument list handed to subprocess.run
    gRes,               \* what run_backup returned or raised
    \* one invocation of the backup or the sql command
    cliPc,              \* "idle", "resolved", "running", "exited"
    cliArgs,            \* the command and its options
    cliRes,             \* what _resolve_with_profile returned or raised
    cliCalls,           \* the functions the command body called, in order
    cliExit,            \* the process's exit code, once it has exited
    cliOut,             \* what the command printed last
    \* one call of _expand_multi_values_insert
    expandIn,           \* its sql argument, or <<>>
    expandOut,          \* the list it returned, or <<>>
    \* one call of a function that needs no session
    callIn,             \* the function called and its arguments, or NoCall
    callOut             \* what it returned or raised and what it did, or NoCall

envFlags == <<_HAS_FB_DRIVER, _HAS_FIREBIRDSQL>>
profVars == <<pfile, ppc, pcmd, pstore, pout>>
connVars == <<attempts, cpc, conn, openIn, openRes, svIn, svRes>>
opArgs == <<sql, stmts, nrows, chunk_size, header, hasCols>>
opCtl == <<op, pc, path, opConn, base, primaryErr, fallbacks, opRes>>
opData == <<si, log, pos, pending, file, rowcount, summary>>
opsVars == <<cmd, opArgs, opCtl, opData>>
shellVars == <<shpc, shConn, buffer, nLines, line, shCmd, shExec, shOut>>
gbakVars == <<gpc, gIn, machine, gbak, gcmd, gRes>>
expandVars == <<expandIn, expandOut>>
callVars == <<callIn, callOut>>
cliVars == <<gbakVars, cliPc, cliArgs, cliRes, cliCalls, cliExit, cliOut, expandVars, callVars>>

vars == <<envFlags, handles, connVars, opsVars, shellVars, profVars, cliVars>>

NoOpenIn == [m |-> <<>>, l |-> "none", p1 |-> ProbeRaise, p2 |-> ProbeRaise]
NoSvIn == [p1 |-> ProbeRaise, p2 |-> ProbeRaise]
NoResult == [ok |-> FALSE, val |-> None, err |-> NoError]

\* The libraries installed are fixed when the module is imported
InitEnv ==
    /\ _HAS_FB_DRIVER \in BOOLEAN
    /\ _HAS_FIREBIRDSQL \in BOOLEAN
    /\ handles = <<>>

InitConn ==
    /\ attempts = <<>>
    /\ cpc = "init"
    /\ conn = NoConn
    /\ openIn = NoOpenIn
    /\ openRes = NoResult
    /\ svIn = NoSvIn
    /\ svRes = NoResult

\* No fb_utils function is running
InitOps ==
    /\ cmd = "none" /\ op = "none" /\ pc = "idle" /\ path = "primary"
    /\ opConn = NoConn /\ base = 0 /\ primaryErr = NoExc /\ fallbacks = 0
    /\ opRes = NoOpResult
    /\ sql = <<>> /\ stmts = <<>> /\ nrows = 0 /\ chunk_size = 1
    /\ header = TRUE /\ hasCols = TRUE
    /\ si = 1 /\ log = <<>> /\ pos = 0 /\ pending = <<>>
    /\ rowcount = 0 /\ summary = {} /\ file = NoFile

NoExec ==
    [raw |-> 0, lines |-> <<>>, outcome |-> "none", committed |-> FALSE, calls |-> <<>>,
     printed |-> <<>>]

InitShell ==
    /\ shpc = "none" /\ shConn = NoConn /\ buffer = <<>> /\ nLines = 0
    /\ line = "none" /\ shCmd = "none" /\ shExec = NoExec /\ shOut = "none"

\* No conn command is running and there is no profiles.json yet
InitProfiles ==
    /\ pfile = Missing
    /\ ppc = [p \in Procs |-> "idle"]
    /\ pcmd = [p \in Procs |-> NoCommand]
    /\ pstore = [p \in Procs |-> EmptyStore]
    /\ pout = [p \in Procs |-> "none"]

\* What find_gbak or run_backup returned (val) or the error it raised (exc)
Found(v) == [ok |-> TRUE, val |-> v, exc |-> "none"]
Failed(e) == [ok |-> FALSE, val |-> NoText, exc |-> e]
NoOutcome == [ok |-> FALSE, val |-> NoText, exc |-> "none"]

NoCall == [f |-> "none"]
NoMachine == [os |-> "none", files |-> {}, which |-> NoText]

\* No gbak_runner function and no command is running
InitCli ==
    /\ gpc = "idle" /\ gIn = NoCall /\ machine = NoMachine
    /\ gbak = NoOutcome /\ gcmd = <<>> /\ gRes = NoOutcome
    /\ cliPc = "idle" /\ cliArgs = NoCall /\ cliRes = NoOutcome
    /\ cliCalls = <<>> /\ cliExit = {} /\ cliOut = "none"
    /\ expandIn = <<>> /\ expandOut = <<>>
    /\ callIn = NoCall /\ callOut = NoCall

\* The program before a command runs
Init == InitEnv /\ InitConn /\ InitOps /\ InitShell /\ InitProfiles /\ InitCli

\* The version queries a handle can answer: every call on a closed handle raises
ProbePairsOn(hs, c) ==
    IF hs[c.raw].open THEN ProbePairs ELSE {[p1 |-> ProbeRaise, p2 |-> ProbeRaise]}

(***************************************************************************)
(* The connection layer used on its own: open, server_version, close       *)
(***************************************************************************)

\* conn = FirebirdConnection.open(params)
ConnOpen ==
    /\ cpc = "init"
    /\ \E in \in OpenInputs :
        LET o == FirebirdConnection_open(_HAS_FB_DRIVER, _HAS_FIREBIRDSQL, handles, in)
        IN  /\ openIn' = in
            /\ openRes' = o.res
            /\ handles' = o.hs
            /\ attempts' = attempts \o o.attempts
            /\ conn' = IF o.res.ok THEN o.res.val ELSE NoConn
            /\ cpc' = IF o.res.ok THEN "open" ELSE "failed"
    /\ UNCHANGED <<envFlags, cliVars, profVars, svIn, svRes, opsVars, shellVars>>

\* conn.server_version()
ConnServerVersion ==
    /\ cpc = "open"
    /\ \E pp \in ProbePairsOn(handles, conn) :
        /\ svIn' = pp
        /\ svRes' = server_version(conn, pp.p1, pp.p2)
    /\ cpc' = "probed"
    /\ UNCHANGED <<envFlags, cliVars, profVars, handles, attempts, conn, openIn, openRes, opsVars, shellVars>>

\* conn.close()
ConnClose ==
    /\ cpc \in {"open", "probed"}
    /\ handles' = CloseHandle(handles, conn.raw)
    /\ cpc' = "closed"
    /\ UNCHANGED <<envFlags, cliVars, profVars, attempts, conn, openIn, openRes, svIn, svRes, opsVars, shellVars>>

NextConn == ConnOpen \/ ConnServerVersion \/ ConnClose

SpecConn == Init /\ [][NextConn]_vars

(***************************************************************************)
(* fb_utils.py: execute_sql, stream_query_to_csv, detect_server_version    *)
(* and quick_health_summary, one driver or file call at a time             *)
(***************************************************************************)

\* The most rows a query yields and the largest chunk_size given
MaxRows == 2
MaxChunk == 3

\* What a call on raw handle h can do: every call on a closed handle raises
CallOutcomes(h) == IF handles[h].open THEN {"ok", "raise"} ELSE {"raise"}

\* Where a function goes after open_dsn returned
FirstStep(f) ==
    CASE f \in {"execute_sql", "stream_query_to_csv"} -> "cursor"
      [] f = "detect_server_version" -> "probe"
      [] f = "quick_health_summary" -> "health"

\* Where a function goes when its primary attempt raised: the legacy connector
\* (execute_sql, stream_query_to_csv), fbsvcmgr (detect_server_version), or its
\* return with the summary as it is (quick_health_summary)
AfterPrimaryFailure(f) ==
    CASE f \in {"execute_sql", "stream_query_to_csv"} -> "fallback_connect"
      [] f = "detect_server_version" -> "service"
      [] f = "quick_health_summary" -> "done"

FallbackFailure_raise_primary(x, caught) == OpRaise(caught)

\* An exception x in the fallback block passes the finally clause and leaves
\* the function; the exception the primary attempt's except caught was logged
FallbackFailure(x, caught) == OpRaise(x)

\* A function is called: its locals are fresh
BeginOp(f) ==
    /\ op' = f /\ pc' = "open" /\ path' = "primary" /\ opConn' = NoConn
    /\ base' = Len(handles) /\ primaryErr' = NoExc /\ fallbacks' = 0
    /\ opRes' = NoOpResult
    /\ si' = 1 /\ log' = <<>> /\ pos' = 0 /\ pending' = <<>> /\ rowcount' = 0
    /\ summary' = {}

\* A driver or file call raised at `site`: the connection is closed (the with
\* statement, or the fallback's finally); the primary attempt's except logs the
\* exception and goes on, the fallback's exception leaves the function.
Fail(site) ==
    /\ handles' = CloseHandle(handles, opConn.raw)
    /\ IF path = "primary"
       THEN /\ primaryErr' = Exc(CallError(site), "primary", site)
            /\ pc' = AfterPrimaryFailure(op)
            /\ opRes' = opRes
       ELSE /\ primaryErr' = primaryErr
            /\ opRes' = FallbackFailure(Exc(CallError(site), "fallback", site), primaryErr)
            /\ pc' = "done"

\* sql command: fb_utils.execute_sql(dsn, query, ...)
RunExecuteSql ==
    /\ cmd = "none" /\ shpc = "none" /\ cpc = "init"
    /\ cmd' = "sql"
    /\ BeginOp("execute_sql")
    /\ \E text \in SqlTexts :
        /\ sql' = text
        /\ stmts' = SplitStatements(text)
    /\ UNCHANGED <<envFlags, cliVars, profVars, handles, connVars, shellVars, nrows, chunk_size, header,
                   hasCols, file>>

\* export command: stream_query_to_csv(dsn, sql, output, chunk_size, ...)
RunExport ==
    /\ cmd = "none" /\ shpc = "none" /\ cpc = "init"
    /\ cmd' = "export"
    /\ BeginOp("stream_query_to_csv")
    /\ \E n \in 0..MaxRows, c \in 1..MaxChunk, h \in BOOLEAN, d \in BOOLEAN :
        /\ n > 0 => d
        /\ nrows' = n /\ chunk_size' = c /\ header' = h /\ hasCols' = d
    /\ file' \in OutputFiles
    /\ UNCHANGED <<envFlags, cliVars, profVars, handles, connVars, shellVars, sql, stmts>>

\* detect command: detect_server_version(dsn, user, password)
RunDetect ==
    /\ cmd = "none" /\ shpc = "none" /\ cpc = "init"
    /\ cmd' = "detect"
    /\ BeginOp("detect_server_version")
    /\ UNCHANGED <<envFlags, cliVars, profVars, handles, connVars, shellVars, opArgs, file>>

\* analyze command: fb_utils.quick_health_summary(dsn, user, password)
RunAnalyze ==
    /\ cmd = "none" /\ shpc = "none" /\ cpc = "init"
    /\ cmd' = "analyze"
    /\ BeginOp("quick_health_summary")
    /\ UNCHANGED <<envFlags, cliVars, profVars, handles, connVars, shellVars, opArgs, file>>

\* "with open_dsn(dsn, user=user, password=password) as conn"
OpenPrimary ==
    /\ pc = "open"
    /\ \E in \in OpenInputs :
        LET o == FirebirdConnection_open(_HAS_FB_DRIVER, _HAS_FIREBIRDSQL, handles, in)
        IN  /\ handles' = o.hs
            /\ IF o.res.ok
               THEN /\ opConn' = o.res.val
                    /\ pc' = FirstStep(op)
                    /\ primaryErr' = primaryErr
                    /\ summary' = IF op = "quick_health_summary" THEN {"engine"} ELSE summary
               ELSE /\ opConn' = opConn
                    /\ pc' = AfterPrimaryFailure(op)
                    /\ primaryErr' = Exc(o.res.err, "primary", "open")
                    /\ summary' = summary
            \* quick_health_summary logs the exception and returns the empty summary
            /\ opRes' = IF ~o.res.ok /\ op = "quick_health_summary"
                         THEN OpReturn(0) ELSE opRes
    /\ UNCHANGED <<envFlags, cliVars, profVars, connVars, shellVars, cmd, opArgs, op, path, base, fallbacks,
                   si, log, pos, pending, file, rowcount>>

\* "con, driver = connect_unified(dsn, user, password)": the fallback starts
\* over with a new cursor; rowcount keeps its value
ConnectFallback ==
    /\ pc = "fallback_connect"
    /\ fallbacks' = fallbacks + 1
    /\ path' = "fallback"
    /\ \E m \in UnifiedModernOutcomes, l \in LegacyOutcomes :
        LET o == connect_unified(_HAS_FB_DRIVER, _HAS_FIREBIRDSQL, handles, m, l)
        IN  /\ handles' = o.hs
            /\ IF o.res.ok
               THEN /\ opConn' = o.res.val
                    /\ pc' = "cursor"
                    /\ opRes' = opRes
               ELSE /\ opConn' = opConn
                    /\ pc' = "done"
                    /\ opRes' = FallbackFailure(Exc(o.res.err, "fallback", "connect"), primaryErr)
    /\ si' = 1 /\ pos' = 0 /\ pending' = <<>>
    /\ UNCHANGED <<envFlags, cliVars, profVars, connVars, shellVars, cmd, opArgs, op, base, primaryErr,
                   log, file, rowcount, summary>>

\* "cur = conn._raw.cursor()" / "cur = con.cursor()"
OpCursor ==
    /\ pc = "cursor"
    /\ \E out \in CallOutcomes(opConn.raw) :
        /\ log' = Append(log, Call(opConn.raw, "cursor", <<>>, out = "ok"))
        /\ IF out = "ok"
           THEN /\ pc' = IF op = "execute_sql" THEN "exec" ELSE "query"
                /\ UNCHANGED <<handles, primaryErr, opRes>>
           ELSE Fail("cursor")
    /\ UNCHANGED <<envFlags, cliVars, profVars, connVars, shellVars, cmd, opArgs, op, path, opConn, base,
                   fallbacks, si, pos, pending, file, rowcount, summary>>

\* execute_sql: "cur.execute(st)" for the next statement of the loop
ExecStatement ==
    /\ pc = "exec" /\ si <= Len(stmts)
    /\ \E out \in CallOutcomes(opConn.raw) :
        /\ log' = Append(log, Call(opConn.raw, "execute", stmts[si], out = "ok"))
        /\ IF out = "ok"
           THEN /\ si' = si + 1
                /\ UNCHANGED <<handles, primaryErr, opRes, pc>>
           ELSE /\ si' = si
                /\ Fail("execute")
    /\ UNCHANGED <<envFlags, cliVars, profVars, connVars, shellVars, cmd, opArgs, op, path, opConn, base,
                   fallbacks, pos, pending, file, rowcount, summary>>

ExecCommit_commit_then_fallback ==
    /\ pc = "exec" /\ si > Len(stmts)
    /\ log' = Append(log, Call(opConn.raw, "commit", <<>>, handles[opConn.raw].open))
    /\ IF path = "primary"
       THEN Fail("commit")
       ELSE /\ handles' = CloseHandle(handles, opConn.raw)
            /\ opRes' = OpReturn(Len(stmts))
            /\ pc' = "done"
            /\ primaryErr' = primaryErr
    /\ UNCHANGED <<envFlags, cliVars, profVars, connVars, shellVars, cmd, opArgs, op, path, opConn, base,
                   fallbacks, si, pos, pending, file, rowcount, summary>>

\* execute_sql: the loop is over; commit, "return len(stmts)", and the with
\* statement (or the finally clause) closes the connection
ExecCommit ==
    /\ pc = "exec" /\ si > Len(stmts)
    /\ \E out \in CallOutcomes(opConn.raw) :
        /\ log' = Append(log, Call(opConn.raw, "commit", <<>>, out = "ok"))
        /\ IF out = "ok"
           THEN /\ handles' = CloseHandle(handles, opConn.raw)
                /\ opRes' = OpReturn(Len(stmts))
                /\ pc' = "done"
                /\ primaryErr' = primaryErr
           ELSE Fail("commit")
    /\ UNCHANGED <<envFlags, cliVars, profVars, connVars, shellVars, cmd, opArgs, op, path, opConn, base,
                   fallbacks, si, pos, pending, file, rowcount, summary>>

\* stream_query_to_csv: "cur.execute(sql)" and the column names
StreamExecute ==
    /\ pc = "query"
    /\ \E out \in CallOutcomes(opConn.raw) :
        /\ log' = Append(log, Call(opConn.raw, "execute", <<>>, out = "ok"))
        /\ IF out = "ok"
           THEN /\ pc' = "fopen"
                /\ UNCHANGED <<handles, primaryErr, opRes>>
           ELSE Fail("execute")
    /\ UNCHANGED <<envFlags, cliVars, profVars, connVars, shellVars, cmd, opArgs, op, path, opConn, base,
                   fallbacks, si, pos, pending, file, rowcount, summary>>

\* stream_query_to_csv: open(output, "w") empties the file; the header row is
\* written when header is set and there are column names
StreamOpenFile ==
    /\ pc = "fopen"
    /\ \E out \in {"ok", "raise_open", "raise_header"} :
        /\ out = "raise_header" => (header /\ hasCols)
        /\ CASE out = "ok" ->
                  /\ file' = IF header /\ hasCols THEN <<HeaderRow>> ELSE <<>>
                  /\ pc' = "fetch"
                  /\ UNCHANGED <<handles, primaryErr, opRes>>
             [] out = "raise_open" ->
                  /\ file' = file
                  /\ Fail("open")
             [] out = "raise_header" ->
                  /\ file' = <<>>
                  /\ Fail("writerow")
    /\ UNCHANGED <<envFlags, cliVars, profVars, connVars, shellVars, cmd, opArgs, op, path, opConn, base,
                   fallbacks, si, log, pos, pending, rowcount, summary>>

\* stream_query_to_csv: "rows = cur.fetchmany(chunk_size)"; an empty chunk ends
\* the loop, the file and the connection are closed and rowcount is returned
StreamFetch ==
    /\ pc = "fetch"
    /\ \E out \in CallOutcomes(opConn.raw) :
        /\ log' = Append(log, Call(opConn.raw, "fetchmany", <<>>, out = "ok"))
        /\ IF out = "ok"
           THEN LET rows == fetchmany(nrows, pos, chunk_size)
                IN  /\ pos' = pos + Len(rows)
                    /\ pending' = rows
                    /\ primaryErr' = primaryErr
                    /\ IF rows = <<>>
                       THEN /\ handles' = CloseHandle(handles, opConn.raw)
                            /\ opRes' = OpReturn(rowcount)
                            /\ pc' = "done"
                       ELSE /\ pc' = "write"
                            /\ UNCHANGED <<handles, opRes>>
           ELSE /\ Fail("fetchmany")
                /\ UNCHANGED <<pos, pending>>
    /\ UNCHANGED <<envFlags, cliVars, profVars, connVars, shellVars, cmd, opArgs, op, path, opConn, base,
                   fallbacks, si, file, rowcount, summary>>

\* stream_query_to_csv: "w.writerows(rows); rowcount += len(rows)"
StreamWrite ==
    /\ pc = "write"
    /\ \E out \in {"ok", "raise"} :
        IF out = "ok"
        THEN /\ file' = file \o pending
             /\ rowcount' = rowcount + Len(pending)
             /\ pc' = "fetch"
             /\ UNCHANGED <<handles, primaryErr, opRes>>
        ELSE /\ Fail("writerows")
             /\ UNCHANGED <<file, rowcount>>
    /\ pending' = <<>>
    /\ UNCHANGED <<envFlags, cliVars, profVars, connVars, shellVars, cmd, opArgs, op, path, opConn, base,
                   fallbacks, si, log, pos, summary>>

\* The version fbsvcmgr reports in the model, and the value for "not detected"
V_000 == <<"0", ".", "0", ".", "0">>

\* The most pieces of fbsvcmgr output told apart
MaxOutputLen == 2

\* A piece of fbsvcmgr output: "Firebird <version>", which the pattern of line
\* 290 matches with <version> as its group, or text it does not match
OtherText == [match |-> FALSE, version |-> NoText]
FirebirdVersion(v) == [match |-> TRUE, version |-> v]
OutputPieces == {OtherText, FirebirdVersion(V_3010), FirebirdVersion(S_25)}

RECURSIVE OutputsUpTo(_)
OutputsUpTo(n) ==
    IF n = 0 THEN {<<>>}
    ELSE OutputsUpTo(n - 1) \cup
         {Append(o, x) : o \in {q \in OutputsUpTo(n - 1) : Len(q) = n - 1}, x \in OutputPieces}

\* What the fbsvcmgr call does: it raises (missing, failing or timed out), or
\* it returns its output
ServiceOutcomes ==
    {[raised |-> TRUE, out |-> <<>>]}
    \cup {[raised |-> FALSE, out |-> o] : o \in OutputsUpTo(MaxOutputLen)}

search_takes_last(out) ==
    LET hits == {i \in 1..Len(out) : out[i].match}
    IN  IF hits = {} THEN NoText
        ELSE out[CHOOSE i \in hits : \A j \in hits : j <= i].version

RECURSIVE search(_)
\* re.search(r"Firebird\s+(\d+\.\d+(\.\d+)?)", out) and m.group(1): the
\* version of the leftmost match, or NoText when nothing matches
search(out) ==
    IF out = <<>> THEN NoText
    ELSE IF Head(out).match THEN Head(out).version
    ELSE search(Tail(out))

\* detect_server_version: "return conn.server_version()" inside the with
\* statement; an exception there is passed over and fbsvcmgr is asked
DetectProbe ==
    /\ pc = "probe"
    /\ \E pp \in ProbePairsOn(handles, opConn) :
        LET r == server_version(opConn, pp.p1, pp.p2)
        IN  /\ log' = Append(log, Call(opConn.raw, "server_version", pp, r.ok))
            /\ IF r.ok
               THEN /\ opRes' = OpReturn(r.val)
                    /\ pc' = "done"
                    /\ primaryErr' = primaryErr
               ELSE /\ opRes' = opRes
                    /\ pc' = AfterPrimaryFailure(op)
                    /\ primaryErr' = Exc(r.err, "primary", "server_version")
    /\ handles' = CloseHandle(handles, opConn.raw)
    /\ UNCHANGED <<envFlags, cliVars, profVars, connVars, shellVars, cmd, opArgs, op, path, opConn, base,
                   fallbacks, si, pos, pending, file, rowcount, summary>>

\* detect_server_version: the fbsvcmgr info_server_version request
DetectService ==
    /\ pc = "service"
    /\ \E svc \in ServiceOutcomes :
        /\ log' = Append(log, Call(0, "fbsvcmgr", svc.out, ~svc.raised))
        /\ opRes' = OpReturn(IF ~svc.raised /\ search(svc.out) # NoText
                              THEN search(svc.out) ELSE V_000)
    /\ pc' = "done"
    /\ UNCHANGED <<envFlags, cliVars, profVars, handles, connVars, shellVars, cmd, opArgs, op, path, opConn,
                   base, primaryErr, fallbacks, si, pos, pending, file, rowcount, summary>>

\* The guarded probes of quick_health_summary after "engine"
HealthProbeNames ==
    {"server_version", "user_relations", "attachments", "mon_database",
     "sweep_interval", "statements"}

\* quick_health_summary: the guarded probes, each adding its keys or nothing,
\* and the end of the with statement
HealthProbes ==
    /\ pc = "health"
    /\ \E got \in SUBSET HealthProbeNames :
        /\ ~handles[opConn.raw].open => got = {}
        /\ summary' = summary \cup got
    /\ handles' = CloseHandle(handles, opConn.raw)
    /\ opRes' = OpReturn(0)
    /\ pc' = "done"
    /\ UNCHANGED <<envFlags, cliVars, profVars, connVars, shellVars, cmd, opArgs, op, path, opConn, base,
                   primaryErr, fallbacks, si, log, pos, pending, file, rowcount>>

(***************************************************************************)
(* __main__.py: the interactive shell                                      *)
(***************************************************************************)

\* The most lines a session reads before its input ends
MaxLines == 3

\* shell command
RunShell ==
    /\ cmd = "none" /\ shpc = "none" /\ cpc = "init"
    /\ cmd' = "shell"
    /\ shpc' = "connect"
    /\ UNCHANGED <<envFlags, cliVars, profVars, handles, connVars, opArgs, opCtl, opData, shConn, buffer,
                   nLines, line, shCmd, shExec, shOut>>

\* "with open_dsn(...) as conn" and the banner's conn.server_version(): an
\* exception of either leaves the with statement and prints "Connect failed"
ShellConnect ==
    /\ shpc = "connect"
    /\ \E in \in OpenInputs :
        LET o == FirebirdConnection_open(_HAS_FB_DRIVER, _HAS_FIREBIRDSQL, handles, in)
        IN  IF ~o.res.ok
            THEN /\ handles' = o.hs
                 /\ shConn' = shConn
                 /\ shpc' = "closed"
                 /\ shOut' = "connect_failed"
            ELSE \E pp \in ProbePairsOn(o.hs, o.res.val) :
                    LET r == server_version(o.res.val, pp.p1, pp.p2)
                    IN  /\ shConn' = o.res.val
                        /\ IF r.ok
                           THEN /\ handles' = o.hs
                                /\ shpc' = "loop"
                                /\ shOut' = "connected"
                           ELSE /\ handles' = CloseHandle(o.hs, o.res.val.raw)
                                /\ shpc' = "closed"
                                /\ shOut' = "connect_failed"
    /\ UNCHANGED <<envFlags, cliVars, profVars, connVars, opsVars, buffer, nLines, line, shCmd, shExec>>

\* The loop ends: ":quit", ":exit", ":q", end of input, or input() raising
\* another exception; the with statement closes the session's connection
ShellEnd ==
    /\ shpc = "loop"
    /\ \E how \in {"quit", "eof", "input_error"} :
        /\ shOut' = IF how = "input_error" THEN "connect_failed" ELSE shOut
        /\ line' = how
    /\ handles' = CloseHandle(handles, shConn.raw)
    /\ shpc' = "closed"
    /\ UNCHANGED <<envFlags, cliVars, profVars, connVars, opsVars, shConn, buffer, nLines, shCmd, shExec>>

ShellNotice_clears_buffer ==
    /\ shpc = "loop" /\ nLines < MaxLines
    /\ \E kind \in {"blank", "help", "export_usage", "export_no_semicolon",
                    "backup_usage", "backup_error", "unknown_command"} :
        /\ shOut' = IF kind = "blank" THEN "none" ELSE kind
        /\ line' = kind
    /\ nLines' = nLines + 1 /\ shExec' = NoExec /\ buffer' = <<>>
    /\ UNCHANGED <<envFlags, cliVars, profVars, handles, connVars, opsVars, shpc, shConn, shCmd>>

ShellNotice_unknown_exits ==
    /\ shpc = "loop" /\ nLines < MaxLines
    /\ \E kind \in {"blank", "help", "export_usage", "export_no_semicolon",
                    "backup_usage", "backup_error", "unknown_command"} :
        /\ shOut' = IF kind = "blank" THEN "none" ELSE kind
        /\ line' = kind
        /\ shpc' = IF kind = "unknown_command" THEN "closed" ELSE shpc
    /\ nLines' = nLines + 1 /\ shExec' = NoExec
    /\ UNCHANGED <<envFlags, cliVars, profVars, handles, connVars, opsVars, shConn, buffer, shCmd>>

\* A line that only prints: a blank line prints nothing; ":help"; ":export"
\* with too few words or without ';'; ":backup" without "-o" or without a file
\* name; an unknown ':' command
ShellNotice ==
    /\ shpc = "loop" /\ nLines < MaxLines
    /\ \E kind \in {"blank", "help", "export_usage", "export_no_semicolon",
                    "backup_usage", "backup_error", "unknown_command"} :
        /\ shOut' = IF kind = "blank" THEN "none" ELSE kind
        /\ line' = kind
    /\ nLines' = nLines + 1 /\ shExec' = NoExec
    /\ UNCHANGED <<envFlags, cliVars, profVars, handles, connVars, opsVars, shpc, shConn, buffer, shCmd>>

\* ":export <output> <SQL>;": stream_query_to_csv with its default chunk_size
ShellExport ==
    /\ shpc = "loop" /\ nLines < MaxLines
    /\ nLines' = nLines + 1 /\ line' = "export" /\ shCmd' = "export" /\ shpc' = "in_op"
    /\ BeginOp("stream_query_to_csv")
    /\ \E n \in 0..MaxRows, d \in BOOLEAN :
        /\ n > 0 => d
        /\ nrows' = n /\ chunk_size' = DEFAULT_CHUNK_SIZE /\ header' = TRUE /\ hasCols' = d
    /\ file' \in OutputFiles
    /\ shOut' = "none" /\ shExec' = NoExec
    /\ UNCHANGED <<envFlags, cliVars, profVars, handles, connVars, cmd, sql, stmts, shConn, buffer>>

\* ":detect", ":backup -o <file>" (run_backup detects the server version
\* first) and ":analyze"
ShellCall ==
    /\ shpc = "loop" /\ nLines < MaxLines
    /\ nLines' = nLines + 1 /\ shpc' = "in_op"
    /\ \E c \in {"detect", "backup", "analyze"} :
        /\ line' = c /\ shCmd' = c
        /\ BeginOp(IF c = "analyze" THEN "quick_health_summary" ELSE "detect_server_version")
    /\ shOut' = "none" /\ shExec' = NoExec
    /\ UNCHANGED <<envFlags, cliVars, profVars, handles, connVars, cmd, opArgs, file, shConn, buffer>>

\* The function a ':' command called has returned or raised: the result is
\* printed (":backup" runs gbak first) and the loop goes on
ShellOpReturn ==
    /\ shpc = "in_op" /\ pc = "done"
    /\ \E ran \in {"ok", "GbakError"} :
        shOut' = CASE shCmd = "export" -> IF opRes.ok THEN "exported" ELSE "export_error"
                   [] shCmd = "backup" -> IF ran = "ok" THEN "backup_complete" ELSE "backup_error"
                   [] shCmd = "detect" -> "server_version"
                   [] shCmd = "analyze" -> IF summary = {} THEN "no_summary" ELSE "summary"
    /\ shpc' = "loop" /\ shCmd' = "none"
    \* the function's locals and its closed handles go out of scope
    /\ op' = "none" /\ pc' = "idle" /\ path' = "primary" /\ opConn' = NoConn
    /\ base' = 0 /\ primaryErr' = NoExc /\ fallbacks' = 0 /\ opRes' = NoOpResult
    /\ sql' = <<>> /\ stmts' = <<>> /\ nrows' = 0 /\ chunk_size' = 1
    /\ header' = TRUE /\ hasCols' = TRUE
    /\ si' = 1 /\ log' = <<>> /\ pos' = 0 /\ pending' = <<>>
    /\ rowcount' = 0 /\ summary' = {} /\ file' = NoFile
    /\ handles' = IF \A h \in (base + 1)..Len(handles) : ~handles[h].open
                  THEN SubSeq(handles, 1, base) ELSE handles
    /\ UNCHANGED <<envFlags, cliVars, profVars, connVars, cmd, shConn, buffer, nLines, line, shExec>>

\* The shell's batch size of cur.fetchmany and the rows it prints at most
SHELL_FETCH_SIZE == 50
SHELL_ROW_LIMIT == 200

\* The sizes of a statement's result set, and the fetchmany call that raises
\* (0: none does)
ResultSizes ==
    {0, 1, SHELL_FETCH_SIZE, SHELL_FETCH_SIZE + 1, SHELL_ROW_LIMIT - 1, SHELL_ROW_LIMIT,
     SHELL_ROW_LIMIT + 1, SHELL_ROW_LIMIT + SHELL_FETCH_SIZE}
FailingFetches == 0..(SHELL_ROW_LIMIT \div SHELL_FETCH_SIZE + 1)

\* "Output truncated at 200 rows."
TruncationNotice == [kind |-> "notice", n |-> 0]

\* What the fetch loop printed, its fetchmany calls and whether one raised
Fetched(printed, fetches, raised) == [printed |-> printed, fetches |-> fetches, raised |-> raised]

RECURSIVE shell_fetch_loop_unlimited(_, _, _, _, _)
shell_fetch_loop_unlimited(n, failAt, fetched, printed, fetches) ==
    IF fetches + 1 = failAt THEN Fetched(printed, fetches + 1, TRUE)
    ELSE LET rows == fetchmany(n, fetched, SHELL_FETCH_SIZE)
         IN  IF rows = <<>> THEN Fetched(printed, fetches + 1, FALSE)
             ELSE shell_fetch_loop_unlimited(n, failAt, fetched + Len(rows), printed \o rows,
                                             fetches + 1)

RECURSIVE shell_fetch_loop(_, _, _, _, _)
\* The shell's "while True: rows = cur.fetchmany(50) ..." on a result set of n
\* rows, from the state (fetched, printed, fetches): every row of a batch is
\* printed, then the limit is tested
shell_fetch_loop(n, failAt, fetched, printed, fetches) ==
    IF fetches + 1 = failAt THEN Fetched(printed, fetches + 1, TRUE)
    ELSE LET rows == fetchmany(n, fetched, SHELL_FETCH_SIZE)
         IN  IF rows = <<>> THEN Fetched(printed, fetches + 1, FALSE)
             ELSE IF fetched + Len(rows) >= SHELL_ROW_LIMIT
                  THEN Fetched(printed \o rows \o <<TruncationNotice>>, fetches + 1, FALSE)
                  ELSE shell_fetch_loop(n, failAt, fetched + Len(rows), printed \o rows,
                                        fetches + 1)

shell_calls_commit_always(out, fetches) ==
    CASE out = "cursor_raise" -> <<"cursor">>
      [] out = "execute_raise" -> <<"cursor", "execute", "close">>
      [] out = "rows" -> <<"cursor", "execute">> \o [i \in 1..fetches |-> "fetchmany"]
                            \o <<"commit", "close">>
      [] OTHER -> <<"cursor", "execute", "commit", "close">>

\* The calls on the session's connection and cursor for one statement: a
\* statement with a description has its rows fetched, one without is committed
shell_calls(out, fetches) ==
    CASE out = "cursor_raise" -> <<"cursor">>
      [] out = "execute_raise" -> <<"cursor", "execute", "close">>
      [] out = "rows" -> <<"cursor", "execute">> \o [i \in 1..fetches |-> "fetchmany"]
                            \o <<"close">>
      [] OTHER -> <<"cursor", "execute", "commit", "close">>

\* What the shell did with one statement: the handle used, the text executed
\* (the buffered lines), how it went, the calls made and the lines printed
Exec(raw, lines, out, f) ==
    [raw |-> raw, lines |-> lines, outcome |-> out, committed |-> out = "commit_ok",
     calls |-> shell_calls(out, f.fetches), printed |-> f.printed]

\* A line of SQL, named by its place in the input: it joins the buffer; a line
\* ending with ';' has the buffer executed on the session's connection, where a
\* statement with a result set has its rows printed and one without is committed
ShellSqlLine ==
    /\ shpc = "loop" /\ nLines < MaxLines
    /\ nLines' = nLines + 1
    /\ \E semi \in BOOLEAN :
        /\ line' = IF semi THEN "sql;" ELSE "sql"
        /\ IF ~semi
           THEN /\ buffer' = Append(buffer, nLines + 1)
                /\ shExec' = NoExec /\ shOut' = "none"
           ELSE /\ buffer' = <<>>
                /\ \E out \in {"cursor_raise", "execute_raise", "rows", "commit_ok", "commit_raise"},
                      n \in ResultSizes, failAt \in FailingFetches :
                       LET f == IF out = "rows"
                                THEN shell_fetch_loop(n, failAt, 0, <<HeaderRow>>, 0)
                                ELSE Fetched(<<>>, 0, FALSE)
                       IN  /\ ~handles[shConn.raw].open => out = "cursor_raise"
                           /\ shExec' = Exec(shConn.raw, Append(buffer, nLines + 1), out, f)
                           /\ shOut' = CASE out = "rows" /\ f.raised -> "sql_error"
                                         [] out = "rows" /\ ~f.raised ->
                                               IF f.printed[Len(f.printed)] = TruncationNotice
                                               THEN "truncated" ELSE "rows"
                                         [] out = "commit_ok" -> "ok"
                                         [] OTHER -> "sql_error"
    /\ UNCHANGED <<envFlags, cliVars, profVars, handles, connVars, opsVars, shpc, shConn, shCmd>>

NextOps ==
    \/ RunExecuteSql \/ RunExport \/ RunDetect \/ RunAnalyze
    \/ OpenPrimary \/ ConnectFallback
    \/ OpCursor \/ ExecStatement \/ ExecCommit
    \/ StreamExecute \/ StreamOpenFile \/ StreamFetch \/ StreamWrite
    \/ DetectProbe \/ DetectService \/ HealthProbes
    \/ RunShell \/ ShellConnect \/ ShellEnd \/ ShellNotice \/ ShellExport
    \/ ShellCall \/ ShellOpReturn \/ ShellSqlLine

\* One CLI command that uses the database
SpecOps == Init /\ [][NextOps]_vars

(***************************************************************************)
(* __main__.py: conn add, conn rm and conn rename                          *)
(***************************************************************************)

dbVars == <<envFlags, handles, connVars, opsVars, shellVars, cliVars>>

\* "store = prof.load_store()" of conn add, conn rm or conn rename
ConnLoadFrom(p, commands) ==
    /\ ppc[p] = "idle"
    /\ \E c \in commands : pcmd' = [pcmd EXCEPT ![p] = c]
    /\ pstore' = [pstore EXCEPT ![p] = load_store(pfile)]
    /\ ppc' = [ppc EXCEPT ![p] = "loaded"]
    /\ pout' = [pout EXCEPT ![p] = "none"]
    /\ UNCHANGED <<dbVars, pfile>>

\* An invocation of conn add, conn rm or conn rename with any arguments
ConnLoad(p) == ConnLoadFrom(p, AddCommands \cup RmCommands \cup RenameCommands)

\* conn add: store.add(ConnectionProfile(...))
ConnAdd(p) ==
    /\ ppc[p] = "loaded" /\ pcmd[p].kind = "add"
    /\ pstore' = [pstore EXCEPT ![p] = add(pstore[p], pcmd[p].profile).profiles]
    /\ ppc' = [ppc EXCEPT ![p] = "changed"]
    /\ UNCHANGED <<dbVars, pfile, pcmd, pout>>

\* conn rm: "Profile not found" and exit code 1 for a name the store lacks,
\* store.remove(name) otherwise
ConnRm(p) ==
    /\ ppc[p] = "loaded" /\ pcmd[p].kind = "rm"
    /\ IF pcmd[p].name \notin DOMAIN pstore[p]
       THEN /\ ppc' = [ppc EXCEPT ![p] = "exit"]
            /\ pout' = [pout EXCEPT ![p] = "not_found"]
            /\ pstore' = pstore
       ELSE /\ ppc' = [ppc EXCEPT ![p] = "changed"]
            /\ pout' = pout
            /\ pstore' = [pstore EXCEPT ![p] = remove(pstore[p], pcmd[p].name).profiles]
    /\ UNCHANGED <<dbVars, pfile, pcmd>>

\* conn rename: store.rename(old, new); KeyError prints "Profile not found",
\* ValueError prints "Target profile exists", both with exit code 1
ConnRename(p) ==
    /\ ppc[p] = "loaded" /\ pcmd[p].kind = "rename"
    /\ LET r == rename(pstore[p], pcmd[p].old, pcmd[p].new)
       IN  /\ pstore' = [pstore EXCEPT ![p] = r.profiles]
           /\ ppc' = [ppc EXCEPT ![p] = IF r.err = None THEN "changed" ELSE "exit"]
           /\ pout' = [pout EXCEPT ![p] =
                         CASE r.err = "KeyError" -> "not_found"
                           [] r.err = "ValueError" -> "target_exists"
                           [] OTHER -> pout[p]]
    /\ UNCHANGED <<dbVars, pfile, pcmd>>

\* "prof.save_store(store)" and the message that ends the command
ConnSave(p) ==
    /\ ppc[p] = "changed"
    /\ pfile' = save_store(pstore[p])
    /\ ppc' = [ppc EXCEPT ![p] = "idle"]
    /\ pout' = [pout EXCEPT ![p] = CASE pcmd[p].kind = "add" -> "saved"
                                     [] pcmd[p].kind = "rm" -> "removed"
                                     [] pcmd[p].kind = "rename" -> "renamed"]
    /\ pstore' = [pstore EXCEPT ![p] = EmptyStore]
    /\ UNCHANGED <<dbVars, pcmd>>

\* typer.Exit(code=1): the invocation ends without saving
ConnExit(p) ==
    /\ ppc[p] = "exit"
    /\ ppc' = [ppc EXCEPT ![p] = "idle"]
    /\ pstore' = [pstore EXCEPT ![p] = EmptyStore]
    /\ UNCHANGED <<dbVars, pfile, pcmd, pout>>

\* One step of invocation p
ConnStep(p) ==
    \/ ConnLoad(p) \/ ConnAdd(p) \/ ConnRm(p) \/ ConnRename(p)
    \/ ConnSave(p) \/ ConnExit(p)

\* The invocations run one after another: each is "p1" again
NextProfiles == ConnStep("p1")

\* The conn commands import neither client library: both are taken as installed
InitInstalled == Init /\ _HAS_FB_DRIVER /\ _HAS_FIREBIRDSQL

\* Invocations of the conn commands, one after another
SpecProfiles == InitInstalled /\ [][NextProfiles]_vars

\* The commands of two invocations that run at the same time: they add, remove
\* and rename the profiles "a" and "b"
RaceNames == {"a", "b"}
RaceCommands ==
    {[kind |-> "add", profile |-> ConnectionProfile(n, "db1", None, None, "UTF8")] :
        n \in RaceNames}
    \cup {c \in RmCommands : c.name \in RaceNames}
    \cup {c \in RenameCommands : c.old \in RaceNames /\ c.new \in RaceNames /\ c.old # c.new}

\* One step of invocation p of the two: neither load_store nor save_store
\* takes a lock or looks at what the other invocation does
RaceStep(p) ==
    \/ ConnLoadFrom(p, RaceCommands) \/ ConnAdd(p) \/ ConnRm(p) \/ ConnRename(p)
    \/ ConnSave(p) \/ ConnExit(p)

NextProfilesRace == \E p \in Procs : RaceStep(p)

\* Two invocations of the conn commands whose steps interleave
SpecProfilesRace == InitInstalled /\ [][NextProfilesRace]_vars

(***************************************************************************)
(* Claims about FirebirdConnection.open and server_version (SpecConn)      *)
(***************************************************************************)

\* open has been called and has returned or raised
Opened == cpc # "init"

\* The modern library's connect succeeded in the open call
ModernConnected == _connect_firebird_driver(TRUE, openIn.m).ok

\* The version probe on the modern handle reported a Firebird 2.5 server
ProbeReports25 ==
    LET v == _detect_server_version(ENGINE_MODERN, openIn.p1, openIn.p2)
    IN  v.ok /\ _is_25(v.val)

\* C1 (as claimed): when the modern library connects, the version probe
\* reports Firebird 2.5 and the legacy library is not installed, open fails
\* with the FirebirdError (MissingDependency) that names the legacy library
\* and returns no connection.
C1_MissingLegacyFor25Raises ==
    (Opened /\ _HAS_FB_DRIVER /\ ModernConnected /\ ProbeReports25 /\ ~_HAS_FIREBIRDSQL)
        => /\ ~openRes.ok
           /\ openRes.err = Err("FirebirdError", "open", {ENGINE_LEGACY})
           /\ conn = NoConn

\* C2: when the modern library is available but its connect fails, open
\* returns a legacy-engine connection (on a handle the legacy library made)
\* if the legacy library is available and its connect succeeds; if the legacy
\* library is not available, the modern connect's own error is raised.
C2_FallbackOnModernConnectFailure ==
    (Opened /\ _HAS_FB_DRIVER /\ ~ModernConnected)
        => /\ (_HAS_FIREBIRDSQL /\ openIn.l = "ok")
                => /\ openRes.ok
                   /\ conn.engine = ENGINE_LEGACY
                   /\ handles[conn.raw].engine = ENGINE_LEGACY
           /\ ~_HAS_FIREBIRDSQL
                => /\ ~openRes.ok
                   /\ conn = NoConn
                   /\ openRes.err = _connect_firebird_driver(TRUE, openIn.m).err
                   /\ openRes.err.origin = ENGINE_MODERN

\* C2 witness: the modern connect failed and open returned a legacy connection
C2_Witness ==
    /\ cpc = "open" /\ _HAS_FB_DRIVER /\ ~ModernConnected
    /\ conn.engine = ENGINE_LEGACY

\* C3: when the modern library is unavailable, every connect made is a legacy
\* connect and a returned connection is a legacy-engine one; when neither
\* library is installed open raises the FirebirdError (MissingDependency) that
\* names both libraries, having attempted no connection at all.
C3_NoModernLibrary ==
    (Opened /\ ~_HAS_FB_DRIVER)
        => /\ \A i \in 1..Len(attempts) : attempts[i] = ENGINE_LEGACY
           /\ _HAS_FIREBIRDSQL
                => /\ Len(attempts) = 1
                   /\ openRes.ok <=> openIn.l = "ok"
                   /\ openRes.ok
                        => /\ conn.engine = ENGINE_LEGACY
                           /\ handles[conn.raw].engine = ENGINE_LEGACY
           /\ ~_HAS_FIREBIRDSQL
                => /\ ~openRes.ok
                   /\ conn = NoConn
                   /\ openRes.err.type = "FirebirdError"
                   /\ openRes.err.names = {ENGINE_MODERN, ENGINE_LEGACY}
                   /\ attempts = <<>>
                   /\ handles = <<>>

\* C3 witness: neither library is installed and open has raised
C3_Witness ==
    /\ cpc = "failed" /\ ~_HAS_FB_DRIVER /\ ~_HAS_FIREBIRDSQL
    /\ openRes.err.names = {ENGINE_MODERN, ENGINE_LEGACY}

\* v is raw without its leading and trailing white space
TrimmedOf(v, raw) ==
    \E i \in 0..Len(raw) : \E j \in i..Len(raw) :
        /\ v = SubSeq(raw, i + 1, j)
        /\ \A k \in 1..i : IsSpace(raw[k])
        /\ \A k \in (j + 1)..Len(raw) : IsSpace(raw[k])
        /\ v # <<>> => ~IsSpace(v[1]) /\ ~IsSpace(v[Len(v)])

\* C4 (as claimed): server_version() returns the trimmed ENGINE_VERSION value
\* when the first query yields a non-empty value, otherwise the (trimmed)
\* value of the MON$SERVER_VERSION query, and raises a FirebirdError
\* (ConnectionFault) whenever neither query produces a value.
C4_RaisesWhenBothProbesFail ==
    cpc = "probed"
        => /\ Yields(svIn.p1) => svRes.ok /\ TrimmedOf(svRes.val, svIn.p1.val)
           /\ (~Yields(svIn.p1) /\ Yields(svIn.p2))
                => svRes.ok /\ TrimmedOf(svRes.val, svIn.p2.val)
           /\ (~Yields(svIn.p1) /\ ~Yields(svIn.p2))
                => ~svRes.ok /\ svRes.err.type = "FirebirdError"

\* C4 (amended): server_version() returns the trimmed ENGINE_VERSION value
\* when the first query yields a non-empty value, otherwise the trimmed value
\* of the MON$SERVER_VERSION query when that yields a non-empty value; it
\* raises a FirebirdError only when the fallback query itself raises, and
\* returns "unknown" when the fallback query completes without a value.
C4_ServerVersion ==
    cpc = "probed"
        => /\ Yields(svIn.p1) => svRes.ok /\ TrimmedOf(svRes.val, svIn.p1.val)
           /\ (~Yields(svIn.p1) /\ Yields(svIn.p2))
                => svRes.ok /\ TrimmedOf(svRes.val, svIn.p2.val)
           /\ (~Yields(svIn.p1) /\ svIn.p2.kind = "raise")
                => ~svRes.ok /\ svRes.err.type = "FirebirdError"
           /\ (~Yields(svIn.p1) /\ ~Yields(svIn.p2) /\ svIn.p2.kind # "raise")
                => svRes.ok /\ svRes.val = S_unknown

\* C4 witness: neither query produced a value, the fallback did not raise,
\* and server_version() returned "unknown"
C4_Witness ==
    /\ cpc = "probed"
    /\ ~Yields(svIn.p1) /\ svIn.p2.kind = "norow"
    /\ svRes.ok /\ svRes.val = S_unknown

(***************************************************************************)
(* Claims about execute_sql and stream_query_to_csv (SpecOps)              *)
(***************************************************************************)

Retrying == op \in {"execute_sql", "stream_query_to_csv"}

\* C5: stream_query_to_csv and execute_sql try the connection layer first; an
\* exception raised anywhere in that attempt has the operation retried exactly
\* once through connect_unified, and when that attempt fails too the caller
\* receives the retry's exception, not the first attempt's.
C5_RetryOnceThroughLegacyConnector ==
    Retrying =>
        /\ fallbacks <= 1
        /\ (path = "fallback") = (fallbacks = 1)
        /\ fallbacks = 1 => primaryErr # NoExc
        /\ pc = "done" =>
            /\ (primaryErr # NoExc) = (fallbacks = 1)
            /\ primaryErr = NoExc => opRes.ok
            /\ ~opRes.ok =>
                /\ opRes.exc.path = "fallback"
                /\ opRes.exc # primaryErr
                /\ opRes.exc # NoExc

\* Both attempts failed, the first at commit and the second at an execute
C5_Witness ==
    /\ op = "execute_sql" /\ pc = "done" /\ fallbacks = 1
    /\ primaryErr.site = "commit"
    /\ ~opRes.ok /\ opRes.exc.site = "execute" /\ opRes.exc.path = "fallback"

\* The statements of a text, read off the positions of its ';': each stretch
\* between two cuts that holds a non-space character, from its first to its last
\* non-space character, with ';' appended
SetMin(S) == CHOOSE x \in S : \A y \in S : x <= y
SetMax(S) == CHOOSE x \in S : \A y \in S : y <= x
Cuts(s) == {0, Len(s) + 1} \cup {i \in 1..Len(s) : s[i] = ";"}
Inked(s, a) ==
    LET b == SetMin({c \in Cuts(s) : c > a})
    IN  {i \in (a + 1)..(b - 1) : ~IsSpace(s[i])}
StatementStarts(s) == {a \in Cuts(s) : a <= Len(s) /\ Inked(s, a) # {}}
ExpectedStatements(s) ==
    [k \in 1..Cardinality(StatementStarts(s)) |->
        LET a == CHOOSE c \in StatementStarts(s) :
                    Cardinality({d \in StatementStarts(s) : d <= c}) = k
        IN  SubSeq(s, SetMin(Inked(s, a)), SetMax(Inked(s, a))) \o <<";">>]

\* The calls of the log made on raw handle h
CallsOn(h) == SelectSeq(log, LAMBDA c : c.h = h)
\* The calls a complete run on handle h makes for the statements sts
CompleteRun(h, sts) ==
    <<Call(h, "cursor", <<>>, TRUE)>>
    \o [i \in 1..Len(sts) |-> Call(h, "execute", sts[i], TRUE)]
    \o <<Call(h, "commit", <<>>, TRUE)>>
Executes == SelectSeq(log, LAMBDA c : c.call = "execute")
Commits == SelectSeq(log, LAMBDA c : c.call = "commit")

Rows(n) == [i \in 1..n |-> DataRow(i)]

\* C7: for a query of N rows and any chunk_size >= 1, when stream_query_to_csv
\* returns the file holds exactly the N rows in result order, after one header
\* row when header is enabled, and the count returned is N (so the file is the
\* one an export with chunk_size >= N writes).
C7_ExportHoldsAllRowsAndCountsThem ==
    (op = "stream_query_to_csv" /\ pc = "done" /\ opRes.ok /\ hasCols) =>
        /\ file = (IF header THEN <<HeaderRow>> ELSE <<>>) \o Rows(nrows)
        /\ opRes.val = nrows

\* C8: execute_sql, stream_query_to_csv, detect_server_version and
\* quick_health_summary have closed every connection they opened when they
\* return or raise, on the first attempt and on the retry; the shell holds its
\* one connection open for the whole session, the functions its commands call
\* leave it alone, and it is closed when the loop has ended.
C8_ConnectionsAreScoped ==
    /\ pc = "done" => \A h \in (base + 1)..Len(handles) : ~handles[h].open
    /\ shpc \in {"loop", "in_op"} =>
        /\ shConn.raw \in 1..Len(handles)
        /\ handles[shConn.raw].open
        /\ handles[shConn.raw].engine = shConn.engine
    /\ shpc = "in_op" => shConn.raw <= base
    /\ shpc = "loop" => \A h \in 1..Len(handles) : handles[h].open => h = shConn.raw
    /\ shpc = "closed" => \A h \in 1..Len(handles) : ~handles[h].open

\* An export that failed on both attempts after connecting twice, inside a
\* shell session whose connection is still open
C8_Witness ==
    /\ shpc = "in_op" /\ pc = "done" /\ op = "stream_query_to_csv"
    /\ fallbacks = 1 /\ ~opRes.ok /\ opRes.exc.site = "fetchmany"
    /\ primaryErr.site = "writerows"
    /\ Len(handles) >= base + 2
    /\ handles[shConn.raw].open

(***************************************************************************)
(* Claims about the profile store (SpecProfiles)                           *)
(***************************************************************************)

\* C9: ProfileStore.rename(old, new) fails as not found when old is no key and
\* as already existing when new is a key (new = old included), and the mapping
\* is then what it was; otherwise old is gone afterwards, new maps to the
\* former entry with its name field equal to new and its other fields as they
\* were, and every other entry is unchanged.
C9_RenameContract ==
    [][\A p \in Procs :
        (ppc[p] = "loaded" /\ pcmd[p].kind = "rename" /\ ppc'[p] # "loaded") =>
            LET old == pcmd[p].old
                new == pcmd[p].new
                before == pstore[p]
                after == pstore'[p]
            IN  /\ old \notin DOMAIN before =>
                    /\ ppc'[p] = "exit" /\ pout'[p] = "not_found"
                    /\ after = before
                /\ (old \in DOMAIN before /\ new \in DOMAIN before) =>
                    /\ ppc'[p] = "exit" /\ pout'[p] = "target_exists"
                    /\ after = before
                /\ (old \in DOMAIN before /\ new \notin DOMAIN before) =>
                    /\ ppc'[p] = "changed"
                    /\ DOMAIN after = (DOMAIN before \ {old}) \cup {new}
                    /\ after[new].name = new
                    /\ \A f \in ProfileFields \ {"name"} : after[new][f] = before[old][f]
                    /\ \A n \in DOMAIN before \ {old} : after[n] = before[n]
    ]_vars

\* An invocation has renamed a saved profile that has a user and a role, in a
\* store that holds another profile
C9_Witness ==
    \E p \in Procs :
        /\ ppc[p] = "changed" /\ pcmd[p].kind = "rename"
        /\ Cardinality(DOMAIN pstore[p]) = 2
        /\ pstore[p][pcmd[p].new].role = "admin"
        /\ pcmd[p].old \notin DOMAIN pstore[p]
        /\ pout[p] = "none" /\ ~pfile.missing
        /\ pcmd[p].old \in DOMAIN pfile.profiles

\* C10: every store the conn commands build by add, remove and rename is the
\* store load_store returns after save_store wrote it (same names, same dsn,
\* user, role and charset), and the file written holds, for each profile, the
\* fields name, dsn, user, role and charset and no password.
C10_SaveThenLoad ==
    /\ \A p \in Procs : load_store(save_store(pstore[p])) = pstore[p]
    /\ ~pfile.missing =>
        /\ save_store(load_store(pfile)) = pfile
        /\ \A n \in DOMAIN pfile.profiles :
            /\ DOMAIN pfile.profiles[n] = ProfileFields
            /\ "password" \notin DOMAIN pfile.profiles[n]
            /\ pfile.profiles[n]["name"] = JsonString(n)

\* An invocation has loaded a saved store of two profiles, one without user
\* and role and one with both
C10_Witness ==
    \E p \in Procs :
        /\ ppc[p] = "loaded" /\ ~pfile.missing
        /\ pstore[p] = load_store(pfile)
        /\ Cardinality(DOMAIN pstore[p]) = 2
        /\ \E n \in ProfileNames : pstore[p][n].user = None /\ pstore[p][n].role = None
        /\ \E n \in ProfileNames : pstore[p][n].user = "sysdba" /\ pstore[p][n].role = "admin"

(***************************************************************************)
(* Claims about concurrent conn commands (SpecProfilesRace)                *)
(***************************************************************************)

ProbeCalls == SelectSeq(log, LAMBDA c : c.call = "server_version")
ServiceCalls == SelectSeq(log, LAMBDA c : c.call = "fbsvcmgr")

\* v is what a probe with the query outcomes pp returns
ProbeReturns(pp, v) ==
    \/ Yields(pp.p1) /\ TrimmedOf(v, pp.p1.val)
    \/ ~Yields(pp.p1) /\ Yields(pp.p2) /\ TrimmedOf(v, pp.p2.val)
    \/ ~Yields(pp.p1) /\ ~Yields(pp.p2) /\ pp.p2.kind # "raise" /\ v = S_unknown

\* v is the version of the leftmost "Firebird <version>" of the output out
LeftmostVersion(out, v) ==
    \E i \in 1..Len(out) :
        /\ out[i].match /\ out[i].version = v
        /\ \A j \in 1..(i - 1) : ~out[j].match

\* C12: detect_server_version asks the connection layer's version probe first
\* and returns its result when it succeeds; when opening or probing fails it
\* asks fbsvcmgr once and returns the version of the first "Firebird <version>"
\* of its output; when that fails too (the call raises, or nothing matches) it
\* returns "0.0.0"; it never raises.
C12_DetectFallsBackToService ==
    op = "detect_server_version" =>
        /\ Len(ProbeCalls) <= 1 /\ Len(ServiceCalls) <= 1
        /\ ServiceCalls # <<>> => (primaryErr # NoExc /\ (ProbeCalls = <<>> \/ ~ProbeCalls[1].ok))
        /\ ProbeCalls # <<>> => log[1] = ProbeCalls[1]
        /\ pc = "done" =>
            /\ opRes.ok
            /\ IF primaryErr = NoExc
               THEN /\ ServiceCalls = <<>> /\ Len(ProbeCalls) = 1 /\ ProbeCalls[1].ok
                    /\ ProbeReturns(ProbeCalls[1].arg, opRes.val)
               ELSE /\ Len(ServiceCalls) = 1
                    /\ LET call == ServiceCalls[1]
                           found == call.ok /\ \E i \in 1..Len(call.arg) : call.arg[i].match
                       IN  /\ found => LeftmostVersion(call.arg, opRes.val)
                           /\ ~found => opRes.val = V_000

\* The probe raised, fbsvcmgr's output names two versions and the first one
\* was returned
C12_Witness ==
    /\ op = "detect_server_version" /\ pc = "done"
    /\ Len(ProbeCalls) = 1 /\ ~ProbeCalls[1].ok
    /\ Len(ServiceCalls) = 1
    /\ ServiceCalls[1].arg = <<FirebirdVersion(S_25), FirebirdVersion(V_3010)>>
    /\ opRes.ok /\ opRes.val = S_25

(***************************************************************************)
(* Claims C17 to C19: the interactive shell                                *)
(***************************************************************************)

\* The number of calls named c the shell made for the statement e
NumCalls(e, c) == Cardinality({i \in 1..Len(e.calls) : e.calls[i] = c})

C18_BufferedLinesExecutedOnce ==
    [][(shpc = "loop" /\ nLines' = nLines + 1) =>
          /\ line' = "sql" =>
                /\ buffer' = Append(buffer, nLines')
                /\ shExec' = NoExec
          /\ line' = "sql;" =>
                /\ shExec'.lines = Append(buffer, nLines')
                /\ shExec'.raw = shConn.raw
                /\ NumCalls(shExec', "execute") = IF shExec'.outcome = "cursor_raise" THEN 0 ELSE 1
                /\ NumCalls(shExec', "execute") = 1 => handles[shConn.raw].open
                /\ NumCalls(shExec', "commit") =
                       IF shExec'.outcome \in {"commit_ok", "commit_raise"} THEN 1 ELSE 0
                /\ shExec'.outcome \in {"commit_ok", "commit_raise"} <=>
                       (shExec'.outcome \notin {"cursor_raise", "execute_raise"}
                           /\ shExec'.printed = <<>>)
                /\ shExec'.committed => NumCalls(shExec', "commit") = 1
          /\ line' \notin {"sql", "sql;"} =>
                /\ buffer' = buffer
                /\ shExec' = NoExec]_vars

\* Two buffered lines were executed as one statement and committed
C18_Witness ==
    /\ nLines = 2 /\ line = "sql;" /\ buffer = <<>>
    /\ shExec.lines = <<1, 2>> /\ shExec.outcome = "commit_ok" /\ shExec.committed

\* The data rows the shell printed for the last statement
PrintedRows == SelectSeq(shExec.printed, LAMBDA r : r.kind = "data")
NoticePrinted == \E i \in 1..Len(shExec.printed) : shExec.printed[i] = TruncationNotice

\* C19: a statement with a result set has one header row printed, then its
\* rows in order, fetched in batches of 50; when 200 rows have been printed the
\* truncation notice is printed and nothing more is fetched or printed, so at
\* most 200 rows are printed.
C19_ShellPrintsAtMostLimit ==
    shExec.outcome = "rows" =>
        LET p == shExec.printed
            k == Len(PrintedRows)
            fetches == NumCalls(shExec, "fetchmany")
        IN  /\ p[1] = HeaderRow
            /\ \A i \in 1..k : p[i + 1] = DataRow(i)
            /\ k <= SHELL_ROW_LIMIT
            /\ Len(p) = 1 + k + (IF NoticePrinted THEN 1 ELSE 0)
            /\ NoticePrinted <=> k = SHELL_ROW_LIMIT
            /\ NoticePrinted => p[Len(p)] = TruncationNotice /\ fetches * SHELL_FETCH_SIZE = k
            /\ ~NoticePrinted =>
                   fetches = (k + SHELL_FETCH_SIZE - 1) \div SHELL_FETCH_SIZE + 1

\* 200 rows were printed after four fetches, then the notice
C19_Witness ==
    /\ shExec.outcome = "rows" /\ shOut = "truncated"
    /\ Len(PrintedRows) = SHELL_ROW_LIMIT
    /\ NumCalls(shExec, "fetchmany") = 4

(***************************************************************************)
(* gbak_runner.py: find_gbak and run_backup                                *)
(***************************************************************************)

\* What no gbak_runner function and no command body changes
otherVars == <<envFlags, handles, connVars, opsVars, shellVars, profVars, expandVars, callVars>>

\* bool(t) of an Optional[str]
Truthy(t) == t # NoText /\ t # <<>>

\* Paths are texts of one token
HomeGbak == <<"/home/u/gbak">>
VarGbak == <<"/fb/gbak">>
PlainGbak == <<"/x/gbak">>
PathGbak == <<"/pathdir/gbak">>

\* os.path.expanduser and os.path.expandvars, with HOME=/home/u and FB=/fb
expanduser(p) == IF p = <<"~/gbak">> THEN HomeGbak ELSE p
expandvars(p) == IF p = <<"$FB/gbak">> THEN VarGbak ELSE p

\* The mapping of _candidate_paths_for_major on Windows
WindowsGbak(m) ==
    CASE m = 5 -> <<"C:\\Program Files\\Firebird\\Firebird_5_0\\bin\\gbak.exe">>
      [] m = 4 -> <<"C:\\Program Files\\Firebird\\Firebird_4_0\\bin\\gbak.exe">>
      [] m = 3 -> <<"C:\\Program Files\\Firebird\\Firebird_3_0\\bin\\gbak.exe">>
      [] m = 2 -> <<"C:\\Program Files\\Firebird\\Firebird_2_5\\bin\\gbak.exe">>
      [] OTHER -> NoText

RECURSIVE AppendUnseen(_, _)
\* The loop "if p and p not in seen: paths.append(p)" over the majors ms
AppendUnseen(paths, ms) ==
    IF ms = <<>> THEN paths
    ELSE LET p == WindowsGbak(Head(ms))
             seen == {paths[i] : i \in 1..Len(paths)}
         IN  AppendUnseen(IF p # NoText /\ p \notin seen THEN Append(paths, p) ELSE paths,
                          Tail(ms))

\* _candidate_paths_for_major(major) where os.name is os
_candidate_paths_for_major(os, major) ==
    IF os = "nt" THEN AppendUnseen(<<>>, <<major, 5, 4, 3, 2>>)
    ELSE << <<"/opt/firebird/bin/gbak">>, <<"/usr/bin/gbak">>,
            <<"/usr/local/firebird/bin/gbak">>, <<"/usr/local/bin/gbak">> >>

\* An Optional[int] is the set of its integer values: {} is None
Majors == {{}, {0}, {3}, {4}}
MajorOf(auto_major) == CHOOSE m \in auto_major : TRUE

\* The first path of ps that is a file of the machine m, or NoText
FirstFile(m, ps) ==
    IF \E i \in 1..Len(ps) : ps[i] \in m.files
    THEN ps[CHOOSE i \in 1..Len(ps) : ps[i] \in m.files /\ \A j \in 1..(i - 1) : ps[j] \notin m.files]
    ELSE NoText

find_gbak_missing_falls_through(m, user_path, auto_major) ==
    LET p == expandvars(expanduser(user_path))
        cand == IF auto_major \notin {{}, {0}}
                THEN FirstFile(m, _candidate_paths_for_major(m.os, MajorOf(auto_major)))
                ELSE NoText
    IN  IF Truthy(user_path) /\ p \in m.files THEN Found(p)
        ELSE IF cand # NoText THEN Found(cand)
        ELSE IF Truthy(m.which) THEN Found(m.which)
        ELSE Failed("GbakError: gbak executable not found")

\* find_gbak(user_path, auto_major=auto_major) on the machine m
find_gbak(m, user_path, auto_major) ==
    LET p == expandvars(expanduser(user_path))
        cand == IF auto_major \notin {{}, {0}}
                THEN FirstFile(m, _candidate_paths_for_major(m.os, MajorOf(auto_major)))
                ELSE NoText
    IN  IF Truthy(user_path)
        THEN IF p \in m.files THEN Found(p)
             ELSE Failed("GbakError: Provided --gbak-path not found")
        ELSE IF cand # NoText THEN Found(cand)
        ELSE IF Truthy(m.which) THEN Found(m.which)
        ELSE Failed("GbakError: gbak executable not found")

\* The files find_gbak may look for, and the machines of the model
GbakFiles ==
    {HomeGbak, PlainGbak, <<"/opt/firebird/bin/gbak">>, <<"/usr/local/bin/gbak">>,
     WindowsGbak(4), WindowsGbak(3)}
Machines ==
    {[os |-> os, files |-> fs, which |-> w] :
        os \in {"nt", "posix"}, fs \in SUBSET GbakFiles, w \in {NoText, PathGbak}}
UserPaths == {NoText, <<>>, <<"~/gbak">>, <<"$FB/gbak">>, PlainGbak}

\* A caller calls find_gbak
FindGbakCall ==
    /\ gpc = "idle" /\ cliPc = "idle"
    /\ \E m \in Machines, user_path \in UserPaths, auto_major \in Majors :
        /\ machine' = m
        /\ gIn' = [f |-> "find_gbak", user_path |-> user_path, auto_major |-> auto_major]
        /\ gbak' = find_gbak(m, user_path, auto_major)
    /\ gpc' = "done"
    /\ UNCHANGED <<otherVars, gcmd, gRes, cliPc, cliArgs, cliRes, cliCalls, cliExit, cliOut>>

\* str.isdigit() for one character, and int() of a text of digits
IsDigit(c) == c \in {"0", "1", "2", "3", "4", "5", "6", "7", "8", "9"}
DigitValue(c) ==
    CASE c = "0" -> 0 [] c = "1" -> 1 [] c = "2" -> 2 [] c = "3" -> 3 [] c = "4" -> 4
      [] c = "5" -> 5 [] c = "6" -> 6 [] c = "7" -> 7 [] c = "8" -> 8 [] c = "9" -> 9

RECURSIVE int(_)
int(s) == IF s = <<>> THEN 0 ELSE 10 * int(SubSeq(s, 1, Len(s) - 1)) + DigitValue(s[Len(s)])

RECURSIVE RunEnd(_, _)
\* The last index of the digits that start at index i of s
RunEnd(s, i) == IF i < Len(s) /\ IsDigit(s[i + 1]) THEN RunEnd(s, i + 1) ELSE i

\* fb_utils.server_major(version): the integer before the first "digits.digits",
\* else the first digits, else None (an Optional[int] as a set)
server_major(version) ==
    LET digits == {i \in 1..Len(version) : IsDigit(version[i])}
        dotted == {i \in digits :
                      /\ RunEnd(version, i) + 2 <= Len(version)
                      /\ version[RunEnd(version, i) + 1] = "."
                      /\ IsDigit(version[RunEnd(version, i) + 2])}
        group1(i) == SubSeq(version, i, RunEnd(version, i))
    IN  IF dotted # {} THEN {int(group1(SetMin(dotted)))}
        ELSE IF digits # {} THEN {int(group1(SetMin(digits)))}
        ELSE {}

\* _is_windows_local_path(p)
_is_windows_local_path(p) == p # <<>> /\ Len(p) >= 3 /\ SubSeq(p, 2, 3) = <<":", "\\">>

\* _normalize_dsn_for_gbak(dsn)
_normalize_dsn_for_gbak(dsn) ==
    IF Contains(dsn, <<":">>) /\ ~_is_windows_local_path(dsn) THEN dsn
    ELSE IF _is_windows_local_path(dsn)
         THEN <<"l", "o", "c", "a", "l", "h", "o", "s", "t", ":">> \o dsn
         ELSE dsn

backup_cmd_password_first(exe, verbose, compress, user, password, source, output) ==
    <<exe, <<"-b">>>>
        \o (IF verbose THEN << <<"-v">> >> ELSE <<>>)
        \o (IF compress THEN << <<"-zip">> >> ELSE <<>>)
        \o (IF Truthy(password) THEN << <<"-password">>, password >> ELSE <<>>)
        \o (IF Truthy(user) THEN << <<"-user">>, user >> ELSE <<>>)
        \o <<source, output>>

\* run_backup's cmd: the list built from [gbak, "-b"] to "cmd += [source, output]"
backup_cmd(exe, verbose, compress, user, password, source, output) ==
    <<exe, <<"-b">>>>
        \o (IF verbose THEN << <<"-v">> >> ELSE <<>>)
        \o (IF compress THEN << <<"-zip">> >> ELSE <<>>)
        \o (IF Truthy(user) THEN << <<"-user">>, user >> ELSE <<>>)
        \o (IF Truthy(password) THEN << <<"-password">>, password >> ELSE <<>>)
        \o <<source, output>>

\* The DSNs, users, passwords and output path of the model
D_classic == <<"h", ":", "d">>
D_windows == <<"C", ":", "\\", "d">>
Dsns == {D_classic, D_windows, <<"d">>, <<"C", ":">>}
Users == {NoText, <<>>, <<"u">>}
Passwords == {NoText, <<>>, <<"p">>}
OutputPath == <<"out.fbk">>

\* The machines run_backup is run on, and what detect_server_version reports
RunMachines == {m \in Machines : m.files \in {{}, {PlainGbak, <<"/opt/firebird/bin/gbak">>, WindowsGbak(3)}}}
DetectedVersions == {V_000, V_3010}

\* The errors run_backup raises as GbakError
GbakErrors ==
    {"GbakError: Provided --gbak-path not found", "GbakError: gbak executable not found",
     "GbakError: gbak not found", "GbakError: gbak timed out", "GbakError: gbak failed"}

\* run_backup(dsn, output, user, password, gbak_path, auto_select, compress, verbose)
RunBackupInput(dsn, user, password, gbak_path, auto_select, compress, verbose) ==
    [f |-> "run_backup", dsn |-> dsn, output |-> OutputPath, user |-> user,
     password |-> password, gbak_path |-> gbak_path, auto_select |-> auto_select,
     compress |-> compress, verbose |-> verbose]

\* A caller other than the backup command calls run_backup
RunBackupCall ==
    /\ gpc = "idle" /\ cliPc = "idle"
    /\ \E dsn \in Dsns, user \in Users, password \in Passwords, gbak_path \in {NoText, PlainGbak},
          auto_select \in BOOLEAN, compress \in BOOLEAN, verbose \in BOOLEAN :
        gIn' = RunBackupInput(dsn, user, password, gbak_path, auto_select, compress, verbose)
    /\ gpc' = "called"
    /\ UNCHANGED <<otherVars, machine, gbak, gcmd, gRes, cliPc, cliArgs, cliRes, cliCalls,
                   cliExit, cliOut>>

\* run_backup up to subprocess.run: the server's major version, find_gbak, cmd
RunBackupBuild ==
    /\ gpc = "called"
    /\ \E m \in RunMachines, ver \in DetectedVersions :
        LET sm == server_major(ver)
            major == IF gIn.auto_select /\ sm # {0} THEN sm ELSE {}
            found == find_gbak(m, gIn.gbak_path, major)
            source == _normalize_dsn_for_gbak(gIn.dsn)
        IN  /\ machine' = m
            /\ gbak' = found
            /\ IF found.ok
               THEN /\ gcmd' = backup_cmd(found.val, gIn.verbose, gIn.compress, gIn.user,
                                          gIn.password, source, gIn.output)
                    /\ gpc' = "built"
                    /\ gRes' = gRes
               ELSE /\ gRes' = Failed(found.exc)
                    /\ gpc' = "done"
                    /\ gcmd' = gcmd
    /\ UNCHANGED <<otherVars, gIn, cliPc, cliArgs, cliRes, cliCalls, cliExit, cliOut>>

\* subprocess.run(cmd, ...) and the check of its return code
RunBackupRun ==
    /\ gpc = "built"
    /\ \E ran \in {"exit 0", "FileNotFoundError", "TimeoutExpired", "exit 1", "PermissionError"} :
        gRes' = CASE ran = "exit 0" -> Found(NoText)
                  [] ran = "FileNotFoundError" -> Failed("GbakError: gbak not found")
                  [] ran = "TimeoutExpired" -> Failed("GbakError: gbak timed out")
                  [] ran = "exit 1" -> Failed("GbakError: gbak failed")
                  [] ran = "PermissionError" -> Failed("PermissionError")
    /\ gpc' = "done"
    /\ UNCHANGED <<otherVars, gIn, machine, gbak, gcmd, cliPc, cliArgs, cliRes, cliCalls,
                   cliExit, cliOut>>

(***************************************************************************)
(* __main__.py: _resolve_with_profile, the backup and the sql command      *)
(***************************************************************************)

\* What prof.get_profile(name) may return: None, or the saved profile
NoProfile == [dsn |-> NoText, user |-> NoText]
SavedProfiles == {NoProfile, [dsn |-> D_windows, user |-> NoText], [dsn |-> D_classic, user |-> <<"u">>]}

\* "a or b" of two Optional[str]
Or(a, b) == IF Truthy(a) THEN a ELSE b

\* What _resolve_with_profile returned, or the typer.BadParameter it raised
Resolved(dsn, user, pwd) == [ok |-> TRUE, dsn |-> dsn, user |-> user, pwd |-> pwd, exc |-> "none"]
BadParameter(msg) == [ok |-> FALSE, dsn |-> NoText, user |-> NoText, pwd |-> NoText, exc |-> msg]

\* _resolve_with_profile(profile, dsn, user, prompt_password=...), where p is
\* what get_profile returns and typed is what the user types at the prompt
_resolve_with_profile(profile, dsn, user, prompt_password, p, typed) ==
    LET dsn1 == IF Truthy(profile) THEN Or(dsn, p.dsn) ELSE dsn
        user1 == IF Truthy(profile) THEN Or(user, p.user) ELSE user
        pwd1 == IF Truthy(profile) /\ prompt_password THEN typed ELSE NoText
        pwd2 == IF prompt_password /\ pwd1 = NoText /\ (Truthy(dsn1) \/ Truthy(user1))
                THEN typed ELSE pwd1
    IN  IF Truthy(profile) /\ p = NoProfile THEN BadParameter("Unknown profile")
        ELSE IF ~Truthy(dsn1) THEN BadParameter("DSN is required")
        ELSE Resolved(dsn1, user1, pwd2)

\* The exit status of the process: click exits with a UsageError's exit_code
\* (2, BadParameter is one), with the code of typer.Exit, with 0 when the
\* command returns, and Python exits with 1 on an uncaught exception
ExitCode(how) ==
    CASE how = "returned" -> 0
      [] how = "Exit(code=1)" -> 1
      [] how = "BadParameter" -> 2
      [] how = "uncaught" -> 1

\* The options of the two commands
Profiles == {NoText, <<"a">>}
BackupArgs ==
    [command : {"backup"}, profile : Profiles, dsn : {NoText, D_classic},
     user : {NoText, <<"u">>}, password : {NoText, <<"p">>}, gbak_path : {NoText, PlainGbak},
     compress : BOOLEAN, no_auto_gbak : BOOLEAN]
SqlArgs ==
    [command : {"sql"}, profile : Profiles, dsn : {NoText, D_classic},
     query : {NoText, <<>>, <<"q", ";">>}, file : {NoText, <<>>, <<"f.sql">>},
     allow_multi_values : BOOLEAN, user : {NoText, <<"u">>}, password : {NoText, <<"p">>}]

\* One call of the command body
CliCall(f, arg) == [f |-> f, arg |-> arg]

\* The process ends
CliEnds(how, out) ==
    /\ cliPc' = "exited"
    /\ cliExit' = {ExitCode(how)}
    /\ cliOut' = out

\* "firebird-assistant backup ...": the body up to the call of run_backup
CliBackup ==
    /\ cliPc = "idle" /\ gpc = "idle"
    /\ \E a \in BackupArgs, p \in SavedProfiles, typed \in {<<>>, <<"p">>} :
        LET r == _resolve_with_profile(a.profile, a.dsn, a.user,
                                       Truthy(a.profile) /\ a.password = NoText, p, typed)
        IN  /\ cliArgs' = a
            /\ cliRes' = r
            /\ IF r.ok
               THEN /\ gIn' = RunBackupInput(r.dsn, r.user,
                                             IF a.password # NoText THEN a.password ELSE r.pwd,
                                             a.gbak_path, ~a.no_auto_gbak, a.compress, TRUE)
                    /\ gpc' = "called"
                    /\ cliCalls' = <<CliCall("run_backup", r.dsn)>>
                    /\ cliPc' = "running"
                    /\ UNCHANGED <<cliExit, cliOut>>
               ELSE /\ CliEnds("BadParameter", r.exc)
                    /\ UNCHANGED <<gIn, gpc, cliCalls>>
    /\ UNCHANGED <<otherVars, machine, gbak, gcmd, gRes>>

\* run_backup returned or raised: the message printed and the exit
CliBackupExit ==
    /\ cliPc = "running" /\ cliArgs.command = "backup" /\ gpc = "done"
    /\ IF gRes.ok THEN CliEnds("returned", "Backup complete")
       ELSE IF gRes.exc \in GbakErrors THEN CliEnds("Exit(code=1)", "Backup failed")
       ELSE CliEnds("uncaught", "Traceback")
    /\ UNCHANGED <<otherVars, gbakVars, cliArgs, cliRes, cliCalls>>

\* "firebird-assistant sql ...": the body up to the call of execute_sql_file
\* or execute_sql
CliSql ==
    /\ cliPc = "idle" /\ gpc = "idle"
    /\ \E a \in SqlArgs, p \in SavedProfiles, typed \in {<<>>, <<"p">>} :
        LET r == _resolve_with_profile(a.profile, a.dsn, a.user,
                                       Truthy(a.profile) /\ a.password = NoText, p, typed)
        IN  /\ cliArgs' = a
            /\ IF ~Truthy(a.query) /\ ~Truthy(a.file)
               THEN /\ CliEnds("BadParameter", "Provide --sql or --file")
                    /\ UNCHANGED <<cliRes, cliCalls>>
               ELSE /\ cliRes' = r
                    /\ IF r.ok
                       THEN /\ cliCalls' = IF Truthy(a.file)
                                           THEN <<CliCall("execute_sql_file", a.file)>>
                                           ELSE <<CliCall("execute_sql", a.query)>>
                            /\ cliPc' = "running"
                            /\ UNCHANGED <<cliExit, cliOut>>
                       ELSE /\ CliEnds("BadParameter", r.exc)
                            /\ UNCHANGED cliCalls
    /\ UNCHANGED <<otherVars, gbakVars>>

\* execute_sql_file or execute_sql returned the count, or raised
CliSqlExit ==
    /\ cliPc = "running" /\ cliArgs.command = "sql"
    /\ \/ CliEnds("returned", "Executed")
       \/ CliEnds("uncaught", "Traceback")
    /\ UNCHANGED <<otherVars, gbakVars, cliArgs, cliRes, cliCalls>>

NextCli ==
    \/ FindGbakCall
    \/ RunBackupCall
    \/ RunBackupBuild
    \/ RunBackupRun
    \/ CliBackup
    \/ CliBackupExit
    \/ CliSql
    \/ CliSqlExit

\* The commands are run with both client libraries installed
SpecCli == InitInstalled /\ [][NextCli]_vars

(***************************************************************************)
(* Claims C13 to C16: gbak selection, the gbak command line, exit codes    *)
(***************************************************************************)

\* The explicit path handed to find_gbak by the call in progress
ExplicitPath == IF gIn.f = "find_gbak" THEN gIn.user_path ELSE gIn.gbak_path
FindDone == gIn.f \in {"find_gbak", "run_backup"} /\ gpc \in {"built", "done"}

\* The version-specific candidates find_gbak is allowed to try
AutoCandidates ==
    IF gIn.auto_major \in {{}, {0}} THEN {}
    ELSE LET ps == _candidate_paths_for_major(machine.os, MajorOf(gIn.auto_major))
         IN  {ps[i] : i \in 1..Len(ps)}

\* C13: when an explicit (non-empty) path is supplied, find_gbak returns that
\* path, expanded, if it is a file and raises the --gbak-path NotFound error
\* otherwise, whatever the version-specific candidates and PATH would find;
\* without an explicit path it returns a version-specific candidate when
\* auto_major is given and one is a file, else PATH's gbak, and raises the
\* NotFound error only when neither yields a file.
C13_ExplicitPathWins ==
    FindDone =>
        /\ Truthy(ExplicitPath) =>
            LET p == expandvars(expanduser(ExplicitPath))
            IN  /\ gbak.ok <=> p \in machine.files
                /\ gbak.ok => gbak.val = p
                /\ ~gbak.ok => gbak.exc = "GbakError: Provided --gbak-path not found"
        /\ (gIn.f = "find_gbak" /\ ~Truthy(ExplicitPath)) =>
            LET onDisk == AutoCandidates \cap machine.files
            IN  /\ onDisk # {} => gbak.ok /\ gbak.val \in onDisk
                /\ (onDisk = {} /\ Truthy(machine.which)) => gbak = Found(machine.which)
                /\ (onDisk = {} /\ ~Truthy(machine.which)) =>
                       ~gbak.ok /\ gbak.exc = "GbakError: gbak executable not found"

\* An explicit path that is no file fails although a candidate and PATH would
\* both have found a gbak
C13_Witness ==
    /\ gpc = "done" /\ gIn.f = "find_gbak"
    /\ gIn.user_path = PlainGbak /\ PlainGbak \notin machine.files
    /\ AutoCandidates \cap machine.files # {} /\ Truthy(machine.which)
    /\ ~gbak.ok

\* The arguments of run_backup's cmd between "-b" and the source
Middle == SubSeq(gcmd, 3, Len(gcmd) - 2)
At(tok) == {i \in 1..Len(Middle) : Middle[i] = tok}
Count(b) == IF b THEN 1 ELSE 0
FlagOrder == << <<"-v">>, <<"-zip">>, <<"-user">>, <<"-password">> >>

\* C14: run_backup's argument list is the executable, "-b", "-v" iff verbose,
\* "-zip" iff compress, "-user <user>" iff a user is given, "-password
\* <password>" iff a password is given, the normalized source DSN and the
\* output path, in that order, the source and the output being the last two.
C14_BackupCommandOrder ==
    (gIn.f = "run_backup" /\ gpc \in {"built", "done"} /\ gbak.ok) =>
        /\ Len(gcmd) >= 4
        /\ gcmd[1] = gbak.val /\ gcmd[2] = <<"-b">>
        /\ gcmd[Len(gcmd) - 1] = _normalize_dsn_for_gbak(gIn.dsn)
        /\ gcmd[Len(gcmd)] = gIn.output
        /\ Cardinality(At(<<"-v">>)) = Count(gIn.verbose)
        /\ Cardinality(At(<<"-zip">>)) = Count(gIn.compress)
        /\ Cardinality(At(<<"-user">>)) = Count(Truthy(gIn.user))
        /\ Cardinality(At(<<"-password">>)) = Count(Truthy(gIn.password))
        /\ \A i \in At(<<"-user">>) : i < Len(Middle) /\ Middle[i + 1] = gIn.user
        /\ \A i \in At(<<"-password">>) : i < Len(Middle) /\ Middle[i + 1] = gIn.password
        /\ Len(Middle) = Count(gIn.verbose) + Count(gIn.compress)
                            + 2 * Count(Truthy(gIn.user)) + 2 * Count(Truthy(gIn.password))
        /\ \A a \in 1..4 : \A b \in (a + 1)..4 :
              \A i \in At(FlagOrder[a]) : \A j \in At(FlagOrder[b]) : i < j

\* Every optional argument is present and the source was normalized
C14_Witness ==
    /\ gIn.f = "run_backup" /\ gpc = "built"
    /\ gIn.verbose /\ gIn.compress /\ gIn.user = <<"u">> /\ gIn.password = <<"p">>
    /\ gIn.dsn = D_windows
    /\ Len(gcmd) = 10

\* C15: a command that reports a failure (backup failure, unknown --profile,
\* usage error such as a missing DSN) exits with code 1, a successful one with 0.
C15_FailureExitsOne ==
    cliPc = "exited" =>
        IF cliOut \in {"Backup complete", "Executed"} THEN cliExit = {0} ELSE cliExit = {1}

\* The sql command was given --sql, --file
SqlGiven == Truthy(cliArgs.query)
FileGiven == Truthy(cliArgs.file)

\* C16: a sql invocation with neither or with both of --sql and --file is
\* rejected as a usage error before anything is executed.
C16_ExactlyOneOfSqlAndFile ==
    (cliPc # "idle" /\ cliArgs.command = "sql" /\ (SqlGiven <=> FileGiven)) =>
        /\ cliPc = "exited"
        /\ cliOut = "Provide --sql or --file"
        /\ cliCalls = <<>>

(***************************************************************************)
(* fb_utils.py: _expand_multi_values_insert                                *)
(*                                                                         *)
(* A statement is a sequence of tokens: a keyword, an identifier, or one   *)
(* character ("(", ")", ",", ";", "'", " " and "1" for any other one).     *)
(***************************************************************************)

RECURSIVE SkipWs(_, _)
\* The first index from i on that holds no whitespace (\s*)
SkipWs(s, i) == IF i <= Len(s) /\ s[i] = " " THEN SkipWs(s, i + 1) ELSE i

RECURSIVE RStripChar(_, _)
\* str.rstrip(c)
RStripChar(s, c) ==
    IF s # <<>> /\ s[Len(s)] = c THEN RStripChar(SubSeq(s, 1, Len(s) - 1), c) ELSE s

\* [A-Z0-9_\$]+ with re.IGNORECASE, for one token
IsIdentifier(tok) == tok \in {"t", "T_1$"}

\* What _MULTI_VALUES_RE.match returns: None, or the three groups
NoMatch == [ok |-> FALSE, table |-> "", cols |-> <<>>, values |-> <<>>]

\* _MULTI_VALUES_RE.match(n) for a text n that ends with its only ';'
_MULTI_VALUES_RE_match(n) ==
    LET tok(i) == IF i \in 1..Len(n) THEN n[i] ELSE "end"
        i0 == SkipWs(n, 1)
        i2 == SkipWs(n, i0 + 1)
        i3 == SkipWs(n, i2 + 1)
        i4 == SkipWs(n, i3 + 1)
        closes == {k \in (i4 + 1)..Len(n) : n[k] = ")"}
        c == IF closes = {} THEN 0 ELSE SetMin(closes)
        i5 == SkipWs(n, c + 1)
        i6 == SkipWs(n, i5 + 1)
        inked == {k \in 1..(Len(n) - 1) : n[k] # " "}
        j == IF inked = {} THEN 0 ELSE SetMax(inked)
    IN  IF /\ tok(i0) \in {"INSERT", "insert"}
           /\ i2 > i0 + 1 /\ tok(i2) \in {"INTO", "into"}
           /\ i3 > i2 + 1 /\ IsIdentifier(tok(i3))
           /\ tok(i4) = "("
           /\ c >= i4 + 2
           /\ tok(i5) \in {"VALUES", "values"}
           /\ tok(i6) = "("
           /\ tok(Len(n)) = ";"
           /\ j >= i6 + 2 /\ tok(j) = ")"
        THEN [ok |-> TRUE, table |-> n[i3], cols |-> SubSeq(n, i4 + 1, c - 1),
              values |-> SubSeq(n, i6, j)]
        ELSE NoMatch

RECURSIVE SplitValues(_, _, _, _, _)
\* The loop "for i, ch in enumerate(s)" from index i on, and the append after it
SplitValues(s, i, depth, start, parts) ==
    IF i > Len(s) THEN Append(parts, Strip(SubSeq(s, start, Len(s))))
    ELSE IF s[i] = "(" THEN SplitValues(s, i + 1, depth + 1, start, parts)
    ELSE IF s[i] = ")" THEN SplitValues(s, i + 1, depth - 1, start, parts)
    ELSE IF s[i] = "," /\ depth = 0
         THEN SplitValues(s, i + 1, depth, i + 1, Append(parts, Strip(SubSeq(s, start, i - 1))))
    ELSE SplitValues(s, i + 1, depth, start, parts)

\* f"INSERT INTO {table} ({cols}) VALUES {p};"
InsertStatement(table, cols, p) ==
    <<"INSERT", " ", "INTO", " ", table, " ", "(">> \o cols \o <<")", " ", "VALUES", " ">>
        \o p \o <<";">>

\* _expand_multi_values_insert(sql), the argument being st
_expand_multi_values_insert(st) ==
    LET m == _MULTI_VALUES_RE_match(RStripChar(Strip(st), ";") \o <<";">>)
        parts == SplitValues(Strip(m.values), 1, 0, 1, <<>>)
        kept == SelectSeq(parts, LAMBDA p : p # <<>>)
    IN  IF ~m.ok THEN <<st>>
        ELSE [k \in 1..Len(kept) |->
                  InsertStatement(m.table, m.cols, RStripChar(Strip(kept[k]), ","))]

\* The longest text between the first "(" and the last ")" of a value list
MaxInnerLen == 5

\* The head of a statement: what precedes its value list
CanonicalHead ==
    <<"INSERT", " ", "INTO", " ", "t", " ", "(", "a", ",", "b", ")", " ", "VALUES", " ">>
Heads ==
    {CanonicalHead,
     <<"insert", " ", "into", " ", "T_1$", "(", "a", ")", "values">>,
     <<"INSERT", " ", "INTO", " ", "t", " ", "VALUES", " ">>,
     <<"INSERT", " ", "INTO", " ", "s.t", " ", "(", "a", ")", " ", "VALUES", " ">>,
     <<"UPDATE", " ", "t", " ", "SET", " ">>}

\* The value lists: every text of at most MaxInnerLen characters in brackets
\* after the canonical head, two of them after the other heads
ValueChars == {"(", ")", ",", "'", " ", "1"}
RECURSIVE InnerTexts(_)
InnerTexts(n) ==
    IF n = 0 THEN {<<>>}
    ELSE InnerTexts(n - 1) \cup {Append(t, c) : t \in InnerTexts(n - 1), c \in ValueChars}
ValueLists == {<<"(">> \o t \o <<")">> : t \in InnerTexts(MaxInnerLen)}
SampleValueLists == {<<"(", "1", ")">>, <<"(", "1", ")", ",", " ", "(", "1", ",", "1", ")">>}

\* The statements execute_sql hands over: stripped, ending with their only ';'
InsertTexts ==
    {CanonicalHead \o v \o <<";">> : v \in ValueLists}
        \cup {h \o v \o <<";">> : h \in Heads, v \in SampleValueLists}

\* execute_sql's "stmts.extend(_expand_multi_values_insert(st_full))"
ExpandCall ==
    /\ expandOut = <<>> /\ gpc = "idle" /\ cliPc = "idle"
    /\ \E st_full \in InsertTexts :
        /\ expandIn' = st_full
        /\ expandOut' = _expand_multi_values_insert(st_full)
    /\ UNCHANGED <<envFlags, handles, connVars, opsVars, shellVars, profVars, gbakVars,
                   cliPc, cliArgs, cliRes, cliCalls, cliExit, cliOut, callVars>>

NextExpand == ExpandCall

SpecExpand == InitInstalled /\ [][NextExpand]_vars

(***************************************************************************)
(* Claim C20: multi-value INSERT expansion                                 *)
(***************************************************************************)

RECURSIVE TupleEnd(_, _, _, _)
\* The index of the ")" that closes the tuple being read, where brackets
\* inside a string literal do not count, or 0 when it is not closed
TupleEnd(v, i, depth, quoted) ==
    IF i > Len(v) THEN 0
    ELSE IF v[i] = "'" THEN TupleEnd(v, i + 1, depth, ~quoted)
    ELSE IF quoted THEN TupleEnd(v, i + 1, depth, quoted)
    ELSE IF v[i] = "(" THEN TupleEnd(v, i + 1, depth + 1, quoted)
    ELSE IF v[i] = ")" THEN IF depth = 1 THEN i ELSE TupleEnd(v, i + 1, depth - 1, quoted)
    ELSE TupleEnd(v, i + 1, depth, quoted)

RECURSIVE TuplesFrom(_, _, _)
\* The tuples of a value list "(<tuple>)[, (<tuple>)...]" read from index i,
\* or <<>> when the text is no such list
TuplesFrom(v, i, acc) ==
    IF i > Len(v) \/ v[i] # "(" THEN <<>>
    ELSE LET e == TupleEnd(v, i, 0, FALSE)
             j == SkipWs(v, e + 1)
         IN  IF e = 0 THEN <<>>
             ELSE IF j > Len(v) THEN Append(acc, SubSeq(v, i, e))
             ELSE IF v[j] = "," THEN TuplesFrom(v, SkipWs(v, j + 1), Append(acc, SubSeq(v, i, e)))
             ELSE <<>>

\* The head and the value list of the statement handed over, and the table
\* and column list of a head of the shape "INSERT INTO <identifier> (<columns>) VALUES"
HeadOf(st) == CHOOSE h \in Heads : StartsWith(st, h)
ValueListOf(st) == SubSeq(st, Len(HeadOf(st)) + 1, Len(st) - 1)
ShapedHeads == {h \in Heads : _MULTI_VALUES_RE_match(h \o <<"(", "1", ")", ";">>).ok}
TableOf(h) == _MULTI_VALUES_RE_match(h \o <<"(", "1", ")", ";">>).table
ColumnsOf(h) == _MULTI_VALUES_RE_match(h \o <<"(", "1", ")", ";">>).cols

\* C20: a statement "INSERT INTO <identifier> (<columns>) VALUES (<tuple>)[,
\* (<tuple>)...];" yields exactly one single-tuple INSERT per tuple, in order,
\* with the same table and column list (a comma or a bracket inside a tuple
\* never splits it); any other statement is returned unchanged, alone.
C20_OneInsertPerTuple ==
    expandOut # <<>> =>
        LET h == HeadOf(expandIn)
            tuples == TuplesFrom(ValueListOf(expandIn), 1, <<>>)
        IN  IF h \in ShapedHeads /\ tuples # <<>>
            THEN expandOut = [k \in 1..Len(tuples) |->
                                 InsertStatement(TableOf(h), ColumnsOf(h), tuples[k])]
            ELSE expandOut = <<expandIn>>

(***************************************************************************)
(* connection.py: FirebirdConnection.export_table_to_csv                   *)
(***************************************************************************)

\* str.isalnum() for one character, over the characters the inputs use
isalnum(ch) == ch \in {"a", "T"} \/ IsDigit(ch)

\* _is_identifier(name): all() over the characters, so True for the empty string
_is_identifier(name) ==
    \A i \in 1..Len(name) : isalnum(name[i]) \/ name[i] \in {"_", "$"}

\* What a method did: its result, the SQL text it built (<<>> when none), the
\* calls it made on the raw handle and the rows it wrote to the stream
Did(res, q, calls, stream) == [res |-> res, sql |-> q, calls |-> calls, stream |-> stream]

RECURSIVE export_loop(_, _, _, _, _, _)
\* The "while True" loop of _export_driver and _export_sql on a result set of
\* n rows: fetchmany(batch_size) until it returns no rows
export_loop(raw, n, batch_size, rows_written, calls, stream) ==
    LET rows == fetchmany(n, rows_written, batch_size)
        fetched == Append(calls, Call(raw, "fetchmany", batch_size, TRUE))
    IN  IF rows = <<>> THEN [rows_written |-> rows_written, calls |-> fetched, stream |-> stream]
        ELSE export_loop(raw, n, batch_size, rows_written + Len(rows), fetched, stream \o rows)

\* _export_driver(conn, sql, stream, delimiter, header, batch_size) on a query
\* that yields n rows, or whose execute() raises
_export_driver(raw, q, head, batch_size, n, executes) ==
    LET cursor == <<Call(raw, "cursor", 0, TRUE)>>
        execute == Append(cursor, Call(raw, "execute", q, executes))
        close == Call(raw, "cur.close", 0, TRUE)
        l == export_loop(raw, n, batch_size, 0, execute, IF head THEN <<HeaderRow>> ELSE <<>>)
    IN  IF ~executes
        THEN Did(Raise(CallError("execute")), q, Append(execute, close), <<>>)
        ELSE Did(Return(l.rows_written), q, Append(l.calls, close), l.stream)

\* _export_sql: the same statements on the legacy library's handle
_export_sql(raw, q, head, batch_size, n, executes) ==
    _export_driver(raw, q, head, batch_size, n, executes)

\* The SQL text export_table_to_csv builds
ExportSql(table, where, order_by) ==
    <<"SELECT * FROM ", "\"">> \o table \o <<"\"">>
        \o (IF Truthy(where) THEN <<" WHERE ">> \o where ELSE <<>>)
        \o (IF Truthy(order_by) THEN <<" ORDER BY ">> \o order_by ELSE <<>>)

InvalidTableName == Err("FirebirdError", "export_table_to_csv", {})

\* self.export_table_to_csv(table, stream, header=, batch_size=, where=, order_by=)
export_table_to_csv(self, table, head, batch_size, where, order_by, n, executes) ==
    IF ~_is_identifier(table) THEN Did(Raise(InvalidTableName), <<>>, <<>>, <<>>)
    ELSE IF self.engine = ENGINE_MODERN
    THEN _export_driver(self.raw, ExportSql(table, where, order_by), head, batch_size, n, executes)
    ELSE _export_sql(self.raw, ExportSql(table, where, order_by), head, batch_size, n, executes)

\* The table arguments: every text of at most MaxTableLen characters
MaxTableLen == 2
TableChars == {"a", "1", "_", "$", "\"", " "}
RECURSIVE TableTexts(_)
TableTexts(n) ==
    IF n = 0 THEN {<<>>}
    ELSE TableTexts(n - 1) \cup {Append(t, c) : t \in {u \in TableTexts(n - 1) : Len(u) = n - 1}, c \in TableChars}

\* export_table_to_csv's default batch_size
EXPORT_BATCH_SIZE == 5000

\* A caller's export_table_to_csv call on a wrapper of either library (its raw
\* handle is the caller's, named 1) and an empty stream
ExportTableCall ==
    /\ callOut = NoCall /\ gpc = "idle" /\ cliPc = "idle" /\ expandOut = <<>>
    /\ \E engine \in {ENGINE_MODERN, ENGINE_LEGACY}, table \in TableTexts(MaxTableLen),
          head \in BOOLEAN, batch_size \in {1, EXPORT_BATCH_SIZE},
          where \in {NoText, <<"x=1">>}, order_by \in {NoText, <<>>, <<"a">>},
          n \in 0..2, executes \in BOOLEAN :
        /\ callIn' = [f |-> "export_table_to_csv", self |-> Conn(engine, 1), table |-> table,
                      header |-> head, batch_size |-> batch_size, where |-> where,
                      order_by |-> order_by]
        /\ callOut' = [f |-> "export_table_to_csv"]
               @@ export_table_to_csv(Conn(engine, 1), table, head, batch_size, where, order_by,
                                      n, executes)
    /\ UNCHANGED <<envFlags, handles, connVars, opsVars, shellVars, profVars, gbakVars,
                   cliPc, cliArgs, cliRes, cliCalls, cliExit, cliOut, expandVars>>

(***************************************************************************)
(* fb_utils.py: quick_health_summary                                       *)
(***************************************************************************)

\* What one conn.query() or conn.server_version() of the summary does: it
\* raises, returns no row, or returns a row.  A column is an Optional value,
\* kept as a set: {} is NULL/None, {v} is the value v.
QueryRaises == [kind |-> "raise"]
NoRows == [kind |-> "norows"]
OneRow(v) == [kind |-> "row", val |-> v]
MonRow(page_size, forced_writes, oit, oat, nxt) ==
    [kind |-> "row", page_size |-> page_size, forced_writes |-> forced_writes,
     oit |-> oit, oat |-> oat, nxt |-> nxt]

\* The one element of a one-element set
The(S) == CHOOSE v \in S : TRUE

\* summary[key] = v
Put(d, key, v) == (key :> v) @@ d

\* summary.get(key), an Optional value as a set
Get(d, key) == IF key \in DOMAIN d THEN {d[key]} ELSE {}

max(a, b) == IF a >= b THEN a ELSE b

\* "try: summary['server_version'] = conn.server_version() except Exception: pass"
probe_server_version(d, q) ==
    IF q.kind = "row" THEN Put(d, "server_version", The(q.val)) ELSE d

probe_count_failure_clears(d, key, q) ==
    IF q.kind = "row" /\ q.val # {} THEN Put(d, key, The(q.val)) ELSE <<>>

\* "try: rows = conn.query(...); if rows: summary[key] = int(rows[0][0])
\*  except Exception: pass" (int(None) raises TypeError, which is passed over)
probe_count(d, key, q) ==
    IF q.kind = "row" /\ q.val # {} THEN Put(d, key, The(q.val)) ELSE d

tx_gap_signed(nxt_i, oit_i) == nxt_i - oit_i

\* "gap = max(0, nxt_i - oit_i)"
tx_gap(nxt_i, oit_i) == max(0, nxt_i - oit_i)

\* The MON$DATABASE block: each column that is not None adds its key, then
\* tx_gap is computed from the summary's oldest_tx and next_tx
probe_mon_database(d, q) ==
    IF q.kind # "row" THEN d
    ELSE LET d1 == IF q.page_size # {} THEN Put(d, "page_size", The(q.page_size)) ELSE d
             d2 == IF q.forced_writes # {}
                   THEN Put(d1, "forced_writes", The(q.forced_writes) # 0) ELSE d1
             d3 == IF q.oit # {} THEN Put(d2, "oldest_tx", The(q.oit)) ELSE d2
             d4 == IF q.oat # {} THEN Put(d3, "oldest_active", The(q.oat)) ELSE d3
             d5 == IF q.nxt # {} THEN Put(d4, "next_tx", The(q.nxt)) ELSE d4
             oit_i == Get(d5, "oldest_tx")
             nxt_i == Get(d5, "next_tx")
         IN  IF oit_i # {} /\ nxt_i # {}
             THEN Put(d5, "tx_gap", tx_gap(The(nxt_i), The(oit_i))) ELSE d5

\* "if rows and rows[0][0] is not None: summary['sweep_interval'] = int(rows[0][0])"
probe_sweep_interval(d, q) ==
    IF q.kind = "row" /\ q.val # {} THEN Put(d, "sweep_interval", The(q.val)) ELSE d

\* The threshold of the "Large OIT gap" warning
LARGE_GAP == 20000

\* "Basic warnings": the list, and the key only when the list is not empty
basic_warnings(d) ==
    LET w1 == IF Get(d, "forced_writes") = {FALSE} THEN <<"Forced writes OFF">> ELSE <<>>
        gap == Get(d, "tx_gap")
        w2 == IF gap # {} /\ The(gap) > LARGE_GAP
              THEN <<"Large OIT gap; consider sweep">> ELSE <<>>
    IN  IF w1 \o w2 # <<>> THEN Put(d, "warnings", w1 \o w2) ELSE d

\* quick_health_summary(dsn, user, password) when open_dsn and the queries do
\* what db says: the summary returned and whether the warning was logged
quick_health_summary(db) ==
    IF ~db.open THEN [summary |-> <<>>, logged |-> TRUE]
    ELSE LET d0 == Put(<<>>, "engine", db.engine)
             d1 == probe_server_version(d0, db.server_version)
             d2 == probe_count(d1, "user_relations", db.user_relations)
             d3 == probe_count(d2, "attachments", db.attachments)
             d4 == probe_mon_database(d3, db.mon_database)
             d5 == probe_sweep_interval(d4, db.sweep_interval)
             d6 == probe_count(d5, "statements", db.statements)
         IN  [summary |-> basic_warnings(d6), logged |-> FALSE]

\* What the queries of the summary can do
CountOutcomes == {QueryRaises, NoRows, OneRow({3})}
SweepOutcomes == {QueryRaises, NoRows, OneRow({}), OneRow({LARGE_GAP})}
OldestTx == 100
MonOutcomes ==
    {QueryRaises, NoRows}
        \cup {MonRow(ps, fw, oit, oat, nxt) :
                 ps \in {{}, {8192}}, fw \in {{}, {0}, {1}}, oit \in {{}, {OldestTx}},
                 oat \in {{OldestTx}},
                 nxt \in {{}, {OldestTx - 1}, {OldestTx}, {OldestTx + LARGE_GAP},
                          {OldestTx + LARGE_GAP + 1}}}
Databases ==
    {[open |-> FALSE]}
        \cup [open : {TRUE}, engine : {ENGINE_MODERN, ENGINE_LEGACY},
              server_version : {QueryRaises, OneRow({V_3010})},
              user_relations : CountOutcomes, attachments : CountOutcomes,
              mon_database : MonOutcomes, sweep_interval : SweepOutcomes,
              statements : {QueryRaises, OneRow({0})}]

\* analyze command: one quick_health_summary call
HealthSummaryCall ==
    /\ callOut = NoCall /\ gpc = "idle" /\ cliPc = "idle" /\ expandOut = <<>>
    /\ \E db \in Databases :
        /\ callIn' = [f |-> "quick_health_summary", db |-> db]
        /\ callOut' = [f |-> "quick_health_summary"] @@ quick_health_summary(db)
    /\ UNCHANGED <<envFlags, handles, connVars, opsVars, shellVars, profVars, gbakVars,
                   cliPc, cliArgs, cliRes, cliCalls, cliExit, cliOut, expandVars>>

(***************************************************************************)
(* DSN parsing: fb_utils._parse_dsn, connection.open_dsn, dbapi._parse_dsn *)
(* and dbapi.try_connect_firebirdsql                                       *)
(*                                                                         *)
(* A DSN is a text of characters; a host name, a key word or a file name   *)
(* without ':', '/', '\', ';' and '=' in it is written as one token.       *)
(***************************************************************************)

\* [A-Za-z] for one character
IsAsciiLetter(c) == c \in {"C", "h", "d"}

\* re.search(r'^[A-Za-z]:\\', dsn) and re.match(r"^[A-Za-z]:\\", dsn)
drive_letter_match(dsn) ==
    Len(dsn) >= 3 /\ IsAsciiLetter(dsn[1]) /\ dsn[2] = ":" /\ dsn[3] = "\\"

\* s.split(c, 1) of a text that holds c: the parts before and after the first c
SplitOnce(s, c) ==
    LET i == Find(s, c, 1)
    IN  [head |-> SubSeq(s, 1, i - 1), rest |-> SubSeq(s, i + 1, Len(s))]

\* "t or None" of a str
OrNone(t) == IF t = <<>> THEN NoText ELSE t

\* The (host, port, path) triple of fb_utils._parse_dsn
Triple(host, port, database) == [host |-> host, port |-> port, path |-> database]

fb_utils_parse_dsn_splits_at_last_colon(dsn) ==
    LET colons == {i \in 1..Len(dsn) : dsn[i] = ":"}
        i == CHOOSE j \in colons : \A k \in colons : k <= j
    IN  IF colons = {} THEN Triple(NoText, NoText, dsn)
        ELSE Triple(OrNone(SubSeq(dsn, 1, i - 1)), NoText, SubSeq(dsn, i + 1, Len(dsn)))

\* fb_utils._parse_dsn(dsn)
fb_utils_parse_dsn(dsn) ==
    IF drive_letter_match(dsn) THEN Triple(NoText, NoText, dsn)
    ELSE IF Find(dsn, ":", 1) # 0
    THEN LET hostpart == SplitOnce(dsn, ":").head
             database == SplitOnce(dsn, ":").rest
         IN  IF Find(hostpart, "/", 1) # 0
             THEN Triple(OrNone(SplitOnce(hostpart, "/").head),
                         OrNone(SplitOnce(hostpart, "/").rest), database)
             ELSE Triple(OrNone(hostpart), NoText, database)
    ELSE Triple(NoText, NoText, dsn)

\* int(port_str): the number, or nothing where int() raises ValueError (an
\* Optional[int] as a set)
int_or_none(port_str) ==
    IF port_str # <<>> /\ \A i \in 1..Len(port_str) : IsDigit(port_str[i])
    THEN {int(port_str)} ELSE {}

\* The defaults of open_dsn
DEFAULT_HOST == <<"localhost">>
DEFAULT_PORT == 3050

\* open_dsn, lines 513-536: the FBConnParams handed to FirebirdConnection.open
\* (auth: whether an authentication bundle is attached)
open_dsn_params(dsn, user, password, role) ==
    LET parsed ==
            IF drive_letter_match(dsn) THEN [host |-> NoText, port |-> {}, database |-> dsn]
            ELSE IF Find(dsn, ":", 1) # 0
            THEN LET host_part == SplitOnce(dsn, ":").head
                     database == SplitOnce(dsn, ":").rest
                 IN  IF Find(host_part, "/", 1) # 0
                     THEN [host |-> SplitOnce(host_part, "/").head,
                           port |-> int_or_none(SplitOnce(host_part, "/").rest),
                           database |-> database]
                     ELSE [host |-> host_part, port |-> {}, database |-> database]
            ELSE [host |-> NoText, port |-> {}, database |-> dsn]
    IN  [host |-> Or(parsed.host, DEFAULT_HOST),
         port |-> IF parsed.port \in {{}, {0}} THEN DEFAULT_PORT ELSE The(parsed.port),
         database |-> parsed.database,
         auth |-> Truthy(user) \/ Truthy(password) \/ Truthy(role)]

\* The DSNs: a host part, then a path, with or without ':' between them
HostParts ==
    {<<>>, <<"h">>, <<"C">>, <<"h", "/", "3", "0">>, <<"h", "/">>, <<"/", "3">>,
     <<"h", "/", "0">>, <<"h", "/", "x">>}
DsnPaths ==
    {<<>>, <<"db">>, <<"C", ":", "\\", "db">>, <<"C", ":", "/", "db">>, <<"/", "db">>,
     <<"\\", "db">>, <<"d", ":", "\\", "a", ":", "b">>}
DsnTexts == {hp \o sep \o pa : hp \in HostParts, sep \in {<<>>, <<":">>}, pa \in DsnPaths}

\* One fb_utils._parse_dsn call (as _service_target_from_dsn makes it)
ParseDsnCall ==
    /\ callOut = NoCall /\ gpc = "idle" /\ cliPc = "idle" /\ expandOut = <<>>
    /\ \E dsn \in DsnTexts :
        /\ callIn' = [f |-> "_parse_dsn", dsn |-> dsn]
        /\ callOut' = [f |-> "_parse_dsn"] @@ fb_utils_parse_dsn(dsn)
    /\ UNCHANGED <<envFlags, handles, connVars, opsVars, shellVars, profVars, gbakVars,
                   cliPc, cliArgs, cliRes, cliCalls, cliExit, cliOut, expandVars>>

\* What the libraries do in the open_dsn calls: the modern connect succeeds
\* and the server is not a 2.5 one, or both libraries fail to connect
DsnOpenInputs ==
    {in \in OpenInputs :
        /\ in.p1 = ProbeRow(V_3010) /\ in.p2 = ProbeRaise
        /\ <<in.m, in.l>> \in {<<(<<"ok">>), "ok">>, <<(<<"DatabaseError">>), "OperationalError">>}}

\* One open_dsn(dsn, user, password, role=) call: the parameters it builds and
\* the FirebirdConnection.open(params) it ends with
OpenDsnCall ==
    /\ callOut = NoCall /\ gpc = "idle" /\ cliPc = "idle" /\ expandOut = <<>>
    /\ \E dsn \in DsnTexts, user \in {NoText, <<"u">>}, role \in {NoText, <<"r">>},
          in \in DsnOpenInputs :
        LET o == FirebirdConnection_open(_HAS_FB_DRIVER, _HAS_FIREBIRDSQL, handles, in)
        IN  /\ callIn' = [f |-> "open_dsn", dsn |-> dsn, user |-> user, role |-> role]
            /\ callOut' = [f |-> "open_dsn", params |-> open_dsn_params(dsn, user, NoText, role),
                           res |-> o.res]
            /\ handles' = o.hs
    /\ UNCHANGED <<envFlags, connVars, opsVars, shellVars, profVars, gbakVars,
                   cliPc, cliArgs, cliRes, cliCalls, cliExit, cliOut, expandVars>>

\* dict(p.split("=", 1) for p in pieces if "=" in p).get(key): the value of
\* the last piece with that key, or None
dict_get(pieces, key) ==
    LET with_key == {i \in 1..Len(pieces) :
                        /\ Find(pieces[i], "=", 1) # 0
                        /\ SplitOnce(pieces[i], "=").head = key}
        last == CHOOSE i \in with_key : \A j \in with_key : j <= i
    IN  IF with_key = {} THEN NoText ELSE SplitOnce(pieces[last], "=").rest

\* The (host, database) pair of dbapi._parse_dsn
Pair(host, database) == [host |-> host, database |-> database]

\* dbapi._parse_dsn(dsn)
dbapi_parse_dsn(dsn) ==
    LET low == Strip(Lower(dsn))
    IN  IF Find(dsn, ";", 1) # 0 /\ Contains(low, <<"database", "=">>)
        THEN Pair(dict_get(Split(dsn, ";"), <<"host">>),
                  Or(dict_get(Split(dsn, ";"), <<"database">>), <<>>))
        ELSE IF Find(dsn, ":", 1) # 0 /\ ~StartsWith(low, <<"database", "=">>)
        THEN Pair(OrNone(SplitOnce(dsn, ":").head), SplitOnce(dsn, ":").rest)
        ELSE Pair(NoText, dsn)

\* try_connect_firebirdsql: the keyword arguments of firebirdsql.connect
firebirdsql_kwargs(dsn, user, password) ==
    [host |-> Or(dbapi_parse_dsn(dsn).host, <<"localhost">>),
     database |-> dbapi_parse_dsn(dsn).database,
     user |-> Or(user, <<"SYSDBA">>),
     password |-> Or(password, <<>>),
     charset |-> <<"UTF8">>]

\* The key=value DSNs: optional host= and database= pieces in either order
KeyValueDsns ==
    LET hostPiece == <<"host", "=", "h">>
        dbPiece == <<"database", "=", "C", ":", "\\", "db">>
    IN  {dbPiece \o <<";">>, dbPiece, hostPiece \o <<";">> \o dbPiece,
         dbPiece \o <<";">> \o hostPiece, hostPiece \o <<";">>,
         <<"database", "=", ";">> \o hostPiece,
         dbPiece \o <<";", "user", "=", "u">>}
LegacyDsns == DsnTexts \cup KeyValueDsns

\* One try_connect_firebirdsql(dsn, user, password) call
LegacyConnectCall ==
    /\ callOut = NoCall /\ gpc = "idle" /\ cliPc = "idle" /\ expandOut = <<>>
    /\ \E dsn \in LegacyDsns, user \in {NoText, <<"u">>}, l \in LegacyOutcomes :
        LET c == try_connect_firebirdsql(_HAS_FIREBIRDSQL, l)
        IN  /\ callIn' = [f |-> "try_connect_firebirdsql", dsn |-> dsn, user |-> user]
            /\ callOut' = [f |-> "try_connect_firebirdsql",
                           parsed |-> dbapi_parse_dsn(dsn),
                           kwargs |-> firebirdsql_kwargs(dsn, user, NoText),
                           ok |-> c.ok]
            /\ handles' = IF c.ok THEN Append(handles, Handle(ENGINE_LEGACY)) ELSE handles
    /\ UNCHANGED <<envFlags, connVars, opsVars, shellVars, profVars, gbakVars,
                   cliPc, cliArgs, cliRes, cliCalls, cliExit, cliOut, expandVars>>

\* Calls that need no session, one per behaviour
NextCalls ==
    \/ ExportTableCall \/ HealthSummaryCall \/ ParseDsnCall \/ OpenDsnCall
    \/ LegacyConnectCall

SpecCalls == InitInstalled /\ [][NextCalls]_vars

(***************************************************************************)
(* Claim C21: export_table_to_csv checks the table name                    *)
(***************************************************************************)

\* A bare identifier: at least one character, each a letter, a digit, "_" or "$"
BareIdentifier(t) ==
    /\ t # <<>>
    /\ \A i \in 1..Len(t) :
           t[i] \in {"a", "T", "0", "1", "2", "3", "4", "5", "6", "7", "8", "9", "_", "$"}

ExportCalled == callOut.f = "export_table_to_csv"
ExportRejected == ExportCalled /\ ~callOut.res.ok /\ callOut.res.err = InvalidTableName

\* C21: export_table_to_csv accepts the table argument only if it is a bare
\* identifier made of letters, digits, "_" and "$"; for any other table the
\* call fails with the invalid-table error, no SQL text is built, no call is
\* made on the connection and nothing is written to the stream.
C21_OnlyIdentifiersExported ==
    ExportCalled =>
        /\ ~ExportRejected => BareIdentifier(callIn.table)
        /\ ~BareIdentifier(callIn.table) =>
               /\ ExportRejected
               /\ callOut.sql = <<>> /\ callOut.calls = <<>> /\ callOut.stream = <<>>

(***************************************************************************)
(* Claims C22 and C23: quick_health_summary                                *)
(***************************************************************************)

HealthCalled == callOut.f = "quick_health_summary"

\* The column a query obtained, as an Optional value: nothing when it raised,
\* returned no row or returned NULL
Obtained(q) == IF q.kind = "row" THEN q.val ELSE {}
ObtainedOf(q, column) == IF q.kind = "row" THEN q[column] ELSE {}

C23_GapAndWarnings ==
    HealthCalled =>
        LET d == callOut.summary
            warnings == IF "warnings" \in DOMAIN d THEN d["warnings"] ELSE <<>>
            Warned(w) == \E i \in 1..Len(warnings) : warnings[i] = w
        IN  /\ "tx_gap" \in DOMAIN d <=> {"oldest_tx", "next_tx"} \subseteq DOMAIN d
            /\ "tx_gap" \in DOMAIN d =>
                   /\ d["tx_gap"] >= 0
                   /\ d["tx_gap"] >= d["next_tx"] - d["oldest_tx"]
                   /\ d["tx_gap"] \in {0, d["next_tx"] - d["oldest_tx"]}
            /\ Warned("Forced writes OFF") <=> Get(d, "forced_writes") = {FALSE}
            /\ Warned("Large OIT gap; consider sweep")
                   <=> ("tx_gap" \in DOMAIN d /\ d["tx_gap"] > 20000)

\* next_tx is below oldest_tx and the gap is 0, and forced writes are off
C23_Witness ==
    /\ HealthCalled /\ callIn.db.open /\ callIn.db.mon_database.kind = "row"
    /\ callIn.db.mon_database.nxt = {OldestTx - 1} /\ callIn.db.mon_database.oit = {OldestTx}
    /\ callOut.summary["tx_gap"] = 0
    /\ "warnings" \in DOMAIN callOut.summary
    /\ callOut.summary["warnings"] = <<"Forced writes OFF">>

(***************************************************************************)
(* Claim C24: the DSN forms of fb_utils._parse_dsn and open_dsn            *)
(***************************************************************************)

\* The host names and the ports a DSN of the model can name
DsnHosts == {<<"h">>, <<"C">>}
DsnPorts == {<<"3", "0">>, <<"0">>, <<"x">>}

\* A bare Windows path: a drive letter, ':' and '\' first
DrivePath(dsn) ==
    Len(dsn) >= 3 /\ dsn[1] \in {"C", "h", "d"} /\ SubSeq(dsn, 2, 3) = <<":", "\\">>

\* The decimal number a port text writes, as a set: nothing when it is no number
PortNumber(port) ==
    {n \in 0..99 : \/ port = <<"0">> /\ n = 0
                   \/ port = <<"3", "0">> /\ n = 30}

ParseDsnCalled == callOut.f = "_parse_dsn"
OpenDsnCalled == callOut.f = "open_dsn"

\* C24: a bare drive-letter path parses to (None, None, path); "host:path" to
\* (host, None, path); "host/port:path" to (host, port, path), the path kept
\* whole with its own drive-letter colon; open_dsn connects to the same host
\* and path and to the port given as a positive number, with "localhost" for
\* an absent host and 3050 for an absent port.
C24_DsnForms ==
    /\ ParseDsnCalled =>
           LET dsn == callIn.dsn
               out == Triple(callOut.host, callOut.port, callOut.path)
           IN  /\ DrivePath(dsn) => out = Triple(NoText, NoText, dsn)
               /\ \A h \in DsnHosts, pa \in DsnPaths :
                      dsn = h \o <<":">> \o pa /\ ~DrivePath(dsn)
                          => out = Triple(h, NoText, pa)
               /\ \A h \in DsnHosts, po \in DsnPorts, pa \in DsnPaths :
                      dsn = h \o <<"/">> \o po \o <<":">> \o pa
                          => out = Triple(h, po, pa)
    /\ OpenDsnCalled =>
           LET dsn == callIn.dsn
               params == callOut.params
           IN  /\ DrivePath(dsn) =>
                      /\ params.host = <<"localhost">> /\ params.port = 3050
                      /\ params.database = dsn
               /\ \A h \in DsnHosts, pa \in DsnPaths :
                      dsn = h \o <<":">> \o pa /\ ~DrivePath(dsn)
                          => params.host = h /\ params.port = 3050 /\ params.database = pa
               /\ \A h \in DsnHosts, po \in DsnPorts, pa \in DsnPaths :
                      dsn = h \o <<"/">> \o po \o <<":">> \o pa
                          => /\ params.host = h /\ params.database = pa
                             /\ \A n \in PortNumber(po) : n > 0 => params.port = n

\* "h/30:C:\db" was parsed, and open_dsn connected to port 30 of host h
C24_Witness ==
    /\ callIn.f \in {"_parse_dsn", "open_dsn"}
    /\ callIn.dsn = <<"h", "/", "3", "0", ":", "C", ":", "\\", "db">>
    /\ ParseDsnCalled => callOut.path = <<"C", ":", "\\", "db">>
    /\ OpenDsnCalled => callOut.params.port = 30 /\ callOut.res.ok

(***************************************************************************)
(* Claim C25: the legacy DSN parser                                        *)
(***************************************************************************)

LegacyConnectCalled == callOut.f = "try_connect_firebirdsql"

\* The key=value DSNs with a database= piece, what they give for host= (None
\* when there is no such piece) and for database=, and the classic and the
\* path-only DSNs
KeyValueForms ==
    LET db == <<"C", ":", "\\", "db">>
        hostPiece == <<"host", "=", "h">>
        dbPiece == <<"database", "=">> \o db
    IN  {[dsn |-> dbPiece \o <<";">>, host |-> NoText, database |-> db],
         [dsn |-> dbPiece, host |-> NoText, database |-> db],
         [dsn |-> hostPiece \o <<";">> \o dbPiece, host |-> <<"h">>, database |-> db],
         [dsn |-> dbPiece \o <<";">> \o hostPiece, host |-> <<"h">>, database |-> db],
         [dsn |-> dbPiece \o <<";", "user", "=", "u">>, host |-> NoText, database |-> db]}
ClassicForms ==
    {[dsn |-> <<"h", ":", "db">>, host |-> <<"h">>, database |-> <<"db">>],
     [dsn |-> <<"h", ":", "/", "db">>, host |-> <<"h">>, database |-> <<"/", "db">>]}
PathOnlyForms ==
    {[dsn |-> pa, host |-> NoText, database |-> pa] :
        pa \in {<<"C", ":", "\\", "db">>, <<"/", "db">>, <<"db">>}}

\* C25: dbapi._parse_dsn gives (host= value or None, database= value) for a
\* key=value DSN with database=, (host, path) for "host:path", and (None, the
\* whole DSN) for a path alone such as C:\db; the legacy connector then uses
\* host "localhost" where no host was parsed, and the path as database.
C25_LegacyDsnForms ==
    LegacyConnectCalled =>
        \A form \in KeyValueForms \cup ClassicForms \cup PathOnlyForms :
            callIn.dsn = form.dsn =>
                /\ callOut.parsed = Pair(form.host, form.database)
                /\ callOut.kwargs.host = Or(form.host, <<"localhost">>)
                /\ callOut.kwargs.database = form.database

(***************************************************************************)
(* Claim C26: the handle of the wrapper open returns                       *)
(***************************************************************************)

\* C26: whenever FirebirdConnection.open returns, the wrapper's raw handle is
\* the handle opened last, it is still open, and the wrapper's engine tag names
\* the library that created it.
C26_OpenReturnsLiveHandle ==
    cpc = "open" =>
        /\ conn.raw = Len(handles)
        /\ conn.raw \in DOMAIN handles
        /\ handles[conn.raw].open
        /\ handles[conn.raw].engine = conn.engine

(***************************************************************************)
(* Claim C27: the row count stream_query_to_csv returns                    *)
(***************************************************************************)

\* The data rows of the output file
DataRowsOf(f) == SelectSeq(f, LAMBDA r : r.kind = "data")

\* C27: when stream_query_to_csv returns, the count it returns is the number
\* of data rows in the output file, also when the first attempt failed after
\* it had written chunks and the export was done again by the fallback.
C27_CountIsRowsInFile ==
    (op = "stream_query_to_csv" /\ pc = "done" /\ opRes.ok) =>
        opRes.val = Len(DataRowsOf(file))

(***************************************************************************)
(* Claim C28: the commits of one execute_sql call                          *)
(***************************************************************************)

\* The positions in the call log of the commits that succeeded
GoodCommits == {i \in 1..Len(log) : log[i].call = "commit" /\ log[i].ok}

\* C28: in one execute_sql call at most one commit succeeds over the first
\* attempt and the fallback, and no call follows a commit that succeeded, so
\* no statement is committed twice.
C28_AtMostOneCommitSucceeds ==
    op = "execute_sql" =>
        /\ Cardinality(GoodCommits) <= 1
        /\ \A i \in GoodCommits : i = Len(log) /\ pc = "done" /\ opRes.ok

\* The first attempt executed every statement and failed at its commit, and
\* the fallback executed them again and committed
C28_Witness ==
    /\ op = "execute_sql" /\ pc = "done" /\ opRes.ok /\ stmts # <<>>
    /\ path = "fallback" /\ primaryErr.site = "commit"
    /\ Cardinality(GoodCommits) = 1
    /\ Len(Commits) = 2

(***************************************************************************)
(* profiles.py: a ProfileStore used directly, one method call after another *)
(***************************************************************************)

\* The store of the calls (the first invocation's store, which starts empty)
TheStore == pstore["p1"]

\* One method call on the store: what was called, the mapping afterwards and
\* the exception raised or None
StoreCall(call, r) ==
    /\ callIn' = call
    /\ callOut' = [f |-> call.f, err |-> r.err]
    /\ pstore' = [pstore EXCEPT !["p1"] = r.profiles]
    /\ UNCHANGED <<envFlags, handles, connVars, opsVars, shellVars, pfile, ppc, pcmd, pout,
                   gbakVars, cliPc, cliArgs, cliRes, cliCalls, cliExit, cliOut, expandVars>>

\* store.add(profile)
StoreAdd ==
    \E c \in AddCommands :
        StoreCall([f |-> "add", profile |-> c.profile], add(TheStore, c.profile))

\* store.remove(name)
StoreRemove ==
    \E n \in ProfileNames :
        StoreCall([f |-> "remove", name |-> n], remove(TheStore, n))

\* store.rename(old, new)
StoreRename ==
    \E old \in ProfileNames, new \in ProfileNames :
        StoreCall([f |-> "rename", old |-> old, new |-> new], rename(TheStore, old, new))

NextStore == StoreAdd \/ StoreRemove \/ StoreRename

SpecStore == InitInstalled /\ [][NextStore]_vars

(***************************************************************************)
(* Claim C29: the ProfileStore invariant                                   *)
(***************************************************************************)

KeysAreNames == \A n \in DOMAIN TheStore : TheStore[n].name = n

\* C29: from the empty store, after any add, remove and rename calls, failed
\* ones included, every key of the mapping is the name field of the profile
\* under it; add(p) leaves every entry but p.name's as it was, and remove(n)
\* of a name that is no key changes nothing.
C29_KeysAreNames ==
    /\ []KeysAreNames
    /\ [][/\ callIn'.f = "add" =>
                /\ DOMAIN TheStore' = DOMAIN TheStore \cup {callIn'.profile.name}
                /\ TheStore'[callIn'.profile.name] = callIn'.profile
                /\ \A n \in DOMAIN TheStore \ {callIn'.profile.name} :
                       TheStore'[n] = TheStore[n]
          /\ (callIn'.f = "remove" /\ callIn'.name \notin DOMAIN TheStore) =>
                /\ TheStore' = TheStore
                /\ callOut'.err = None
       ]_vars

\* remove was called with a name that is no key, on a store of two profiles,
\* one of them with a role
C29_Witness ==
    /\ callIn.f = "remove" /\ callIn.name \notin DOMAIN TheStore
    /\ Cardinality(DOMAIN TheStore) = 2
    /\ \E n \in DOMAIN TheStore : TheStore[n].role = "admin"

(***************************************************************************)
(* Claim C30: the shell's pending buffer                                   *)
(***************************************************************************)

\* The shell reads a line in this step
LineRead == shpc = "loop" /\ nLines' = nLines + 1

\* C30: the buffer is empty right after every execution attempt, whether the
\* statement succeeded or raised; a blank line or a ':' command (and the
\* function it calls) leaves the pending lines as they are, and the statement
\* executed next is made of them and of the line that ends it.
C30_BufferClearedOnExecution ==
    /\ [](shExec.outcome # "none" => buffer = <<>>)
    /\ [][/\ (LineRead /\ line' = "sql;") =>
                /\ buffer' = <<>>
                /\ shExec'.outcome # "none"
                /\ shExec'.lines = Append(buffer, nLines')
          /\ (LineRead /\ line' = "sql") =>
                buffer' = Append(buffer, nLines') /\ shExec'.outcome = "none"
          /\ (LineRead /\ line' \notin {"sql", "sql;"}) => buffer' = buffer
          /\ shpc = "in_op" => buffer' = buffer
       ]_vars

\* A statement of two lines, with a blank line or a ':' command between them,
\* has raised, and the buffer is empty
C30_Witness ==
    /\ shpc = "loop" /\ nLines = 3 /\ line = "sql;"
    /\ shExec.lines = <<1, 3>>
    /\ shOut = "sql_error"
    /\ buffer = <<>>

====
